---- MODULE Spec2Model ----
(***************************************************************************)
(* CartAPI: the request-to-storage pipeline of the shopping-cart service. *)
(* Service layer (internal/service/cart/cart.go) over the relational      *)
(* storage layer (internal/database/psql/psql.go), whose statements run   *)
(* one at a time against the cart / item / cart_item tables.              *)
(***************************************************************************)
EXTENDS Integers, Sequences, FiniteSets, TLC

\* ---------------------------------------------------------------- bounds
MaxCarts == 2
MaxItems == 2

Workers == {"w1", "w2"}
CartIds == 1..MaxCarts
ItemIds == 1..MaxItems
\* Request bodies of POST /carts/{cartId}/items that pass the handler.
Bodies == {[product |-> "apple", quantity |-> 3], [product |-> "pear", quantity |-> 1]}
\* The items that concurrent callers of the service add: the first MaxBodies
\* of them.
MaxBodies == 1
CallBodies ==
  LET list == <<[product |-> "apple", quantity |-> 3], [product |-> "pear", quantity |-> 1]>>
  IN {list[k] : k \in {k \in 1..Len(list) : k <= MaxBodies}}
\* Of the requests under way at one time, at most MaxFaulty, those of the
\* first workers, have their context end or the driver fail between the
\* statements of a transaction.
MaxFaulty == 1
Faulty == {w \in Workers : w = "w1" \/ MaxFaulty >= 2}

\* ---------------------------------------------------------------- errors
\* An error is the chain of what it wraps, outermost first; nil is <<>>.
Nil == <<>>
Canceled == "context.Canceled"
DeadlineExceeded == "context.DeadlineExceeded"
ErrNoRows == "sql.ErrNoRows"
DriverErr == "driver error"
\* The error of a statement PostgreSQL aborted to break a deadlock (40P01).
DeadlockDetected == "pq: deadlock detected"
DbErrNotFound == "databaseerrors.ErrNotFound"
ErrNotFound == "serviceerrors.ErrNotFound"
ErrContextCanceled == "serviceerrors.ErrContextCanceled"
ErrDeadlineExceeded == "serviceerrors.ErrDeadlineExceeded"
OtherCtxErr == "custom context error"

\* fmt.Errorf("%s: %w", op, err)
Wrap(op, err) == <<op>> \o err
\* errors.Is(err, target)
Is(err, target) == \E i \in 1..Len(err) : err[i] = target

\* ---------------------------------------------------------------- values
ZeroCart == [Id |-> 0, Items |-> <<>>, NilItems |-> TRUE]
ZeroItem == [Id |-> 0, CartId |-> 0, Product |-> "", Quantity |-> 0]
\* argId and argCartId are the Id and CartId of the item argument of AddToCart.
ZeroReq ==
  [op |-> "", cartId |-> 0, itemId |-> 0, product |-> "", quantity |-> 0,
   argId |-> 0, argCartId |-> 0]
ZeroRet == [err |-> Nil, cart |-> ZeroCart, item |-> ZeroItem]
ZeroTx == [state |-> "none", insItems |-> {}, insLinks |-> {}, delLinks |-> {}, delItems |-> {}]
\* The locals of a Storage method: the ids its INSERTs returned, and for
\* ViewCart the rows of the result not yet read (rows) and itemsByCartId.
ZeroLoc == [itemId |-> 0, linkId |-> 0, rows |-> <<>>, items |-> <<>>]
\* What is recorded about a cart id: "new" once CreateCart returned it with
\* no write on the cart under way,
\* "adding" while the first AddToCart on it runs with no other write on the
\* cart, "added" with the returned item once that call succeeded, "none"
\* before, and again as soon as another AddToCart or RemoveFromCart names it.
ZeroHist == [ops |-> "none", item |-> ZeroItem]
\* What is recorded about a call for the properties below: the context as the
\* service and the storage entry saw it, whether Storage was called, whether
\* the driver failed, the database calls issued, and the context when Commit
\* was called; for ViewCart, what was recorded about its cart and the removals
\* that had returned when its query was answered.
ZeroGhost ==
  [svCtx |-> "live", stCtx |-> "live", stCalled |-> FALSE, faulted |-> FALSE,
   issued |-> <<>>, commitCtx |-> "live", hist |-> ZeroHist, gone |-> {}]
\* A JSON value of a request body: absent, null, a string s, an integer n, or
\* a number with a fraction.
JAbsent == [t |-> "absent", s |-> "", n |-> 0]
JNull == [t |-> "null", s |-> "", n |-> 0]
JFrac == [t |-> "frac", s |-> "", n |-> 0]
JStr(s) == [t |-> "string", s |-> s, n |-> 0]
JNum(n) == [t |-> "number", s |-> "", n |-> n]
\* A request body: unreadable, empty, not JSON, the JSON null, a JSON array, or
\* a JSON object with its "product" and "quantity" members.
ZeroBody ==
  [kind |-> "empty", id |-> JAbsent, cart_id |-> JAbsent, product |-> JAbsent,
   quantity |-> JAbsent]
\* What is recorded about an HTTP request: the handler, the path parameters
\* as strings (sequences of characters), the body, and the message of the 400
\* response when the handler answered before calling the service.
\* A column value of a result row: NULL, an integer or a text.
SqlNull == [t |-> "null", s |-> "", n |-> 0]
SqlInt(n) == [t |-> "int", s |-> "", n |-> n]
SqlText(s) == [t |-> "text", s |-> s, n |-> 0]
\* The locals of Storage.ViewCart while it reads the rows of its query: the
\* rows, how many of them rows.Next() has delivered, tmpItem and itemsByCartId.
ZeroView == [rows |-> <<>>, k |-> 0, tmpItem |-> ZeroItem, items |-> <<>>]
\* A path given to ParseCartPath, and what ParseCartPath returned for it.
ZeroUrl == [path |-> <<>>, called |-> FALSE, err |-> FALSE, CartId |-> 0, ItemId |-> 0]
\* What is recorded about a request given to the router: its method, its
\* URL path, and the handler the router called for it, or "NotFound".
ZeroRoute == [method |-> "", path |-> <<>>, handler |-> ""]
\* The connections of the HTTP server; each is "none" before it is accepted,
\* then "new", "active" while a handler runs, "idle" between requests, and
\* "closed".
Conns == {"k1", "k2", "k3"}
\* The state of app.Run: where it is, the state of each connection, whether
\* the listener is open, whether storage.Close() has been called, and whether
\* Run returned an error.
ZeroApp ==
  [pc |-> "serving", main |-> "serving", conns |-> [k \in Conns |-> "none"],
   listening |-> TRUE, lnerr |-> FALSE, dbClosed |-> FALSE, err |-> FALSE]
ZeroHttp ==
  [handler |-> "", cartIdStr |-> <<>>, itemIdStr |-> <<>>, body |-> ZeroBody,
   reject |-> ""]

\* ---------------------------------------------------------------- context
CtxStates == {"live", "canceled", "deadline"}
CtxStatesAny == CtxStates \cup {"other"}

\* ctx.Err()
ctxErr(c) ==
  CASE c = "canceled" -> <<Canceled>>
    [] c = "deadline" -> <<DeadlineExceeded>>
    [] c = "other" -> <<OtherCtxErr>>
    [] OTHER -> Nil

\* <-ctx.Done() is ready
ctxDone(c) == c # "live"

\* A context that is done stays done with the same error; a live one may be
\* cancelled, or pass its deadline, before the code looks at it again.
CtxAfter(c) == IF c = "live" THEN CtxStates ELSE {c}

VARIABLES db, pc, req, ctx, tx, loc, st, sv, gh, hist, gone, http, view, url, route, app

vars ==
  <<db, pc, req, ctx, tx, loc, st, sv, gh, hist, gone, http, view, url, route, app>>


\* ---------------------------------------------------------------- database
\* Tables of the schema the statements of psql.go are written for: cart(id),
\* item(id, product, quantity), cart_item(id, cart_id, item_id) with both
\* foreign keys ON DELETE CASCADE.  The three SERIAL sequences are not
\* transactional: a rolled back insert keeps its number.
EmptyDb ==
  [carts |-> {}, items |-> {}, links |-> {}, cartSeq |-> 0, itemSeq |-> 0, linkSeq |-> 0]

Tables(d) == <<d.carts, d.items, d.links>>

\* What a committed transaction leaves in the tables.
Apply(t, d) ==
  [d EXCEPT !.items = {r \in d.items : r.id \notin t.delItems} \cup t.insItems,
            !.links = {l \in d.links : l.id \notin t.delLinks} \cup t.insLinks]

\* tx.Commit()
Commit(t, d) == Apply(t, d)

\* Variant: a Rollback that writes an open transaction through.
Rollback_Commits(t, d) == IF t.state = "open" THEN Apply(t, d) ELSE d
\* defer tx.Rollback(): the writes of an open transaction are dropped; after a
\* commit the call finds the transaction done and changes nothing.
Rollback(t, d) == d

\* Rows another open transaction has deleted and not yet committed are locked.
LockedLinks(w) == UNION {tx[u].delLinks : u \in {v \in Workers \ {w} : tx[v].state = "open"}}
LockedItems(w) == UNION {tx[u].delItems : u \in {v \in Workers \ {w} : tx[v].state = "open"}}

\* The orders in which the rows S of a result may be delivered: the query
\* has no ORDER BY, so any.
Orders(S) ==
  {f \in [1..Cardinality(S) -> S] : \A i, j \in 1..Cardinality(S) : f[i] = f[j] => i = j}

\* SELECT ci.item_id, ci.cart_id, i.product, i.quantity FROM cart_item AS ci
\* JOIN item AS i ON ci.item_id = i.id WHERE ci.cart_id=$1: the results the
\* database may deliver, one for each order of the rows.
JoinRows(d, cartId) ==
  LET hits == {l \in d.links : l.cart_id = cartId /\ \E r \in d.items : r.id = l.item_id}
      row(l) == LET r == CHOOSE r \in d.items : r.id = l.item_id
                IN [Id |-> l.item_id, CartId |-> l.cart_id,
                    Product |-> r.product, Quantity |-> r.quantity]
  IN {[k \in 1..Len(ord) |-> row(ord[k])] : ord \in Orders(hits)}

\* ---------------------------------------------------------------- service
SvOp(op) == "service.cartapi." \o op

\* Variant: the service without its pre-call check.
ServiceCtxOver_Never(c) == FALSE
\* select { case <-ctx.Done(): return zero, handleContextError(log, ctx, op) }
ServiceCtxOver(c) == ctxDone(c)

\* handleContextError
handleContextError(c, op) ==
  IF ctxErr(c) # Nil
  THEN IF Is(ctxErr(c), Canceled) THEN Wrap(SvOp(op), <<ErrContextCanceled>>)
       ELSE IF Is(ctxErr(c), DeadlineExceeded) THEN Wrap(SvOp(op), <<ErrDeadlineExceeded>>)
       ELSE Nil
  ELSE Nil

\* Variant: the classification without the not-found branch.
handleDatabaseError_NoNotFound(err, op) ==
  IF Is(err, Canceled) THEN Wrap(SvOp(op), <<ErrContextCanceled>>)
  ELSE IF Is(err, DeadlineExceeded) THEN Wrap(SvOp(op), <<ErrDeadlineExceeded>>)
  ELSE Wrap(SvOp(op), err)
\* handleDatabaseError
handleDatabaseError(err, op) ==
  IF Is(err, Canceled) THEN Wrap(SvOp(op), <<ErrContextCanceled>>)
  ELSE IF Is(err, DeadlineExceeded) THEN Wrap(SvOp(op), <<ErrDeadlineExceeded>>)
  ELSE IF Is(err, DbErrNotFound) THEN Wrap(SvOp(op), <<ErrNotFound>>)
  ELSE Wrap(SvOp(op), err)

\* What a service method returns once Storage has returned ret:
\* if err != nil { return zero, handleDatabaseError(...) }; return value, nil
ServiceResult(op, ret) ==
  IF ret.err # Nil
  THEN [ZeroRet EXCEPT !.err = handleDatabaseError(ret.err, op)]
  ELSE ret

\* ---------------------------------------------------------------- storage
StOp(op) == "database.psql." \o op

\* Variant: the Storage method without its entry check.
StorageCtxOver_Never(c) == FALSE
\* select { case <-ctx.Done(): return zero, fmt.Errorf("%s: %w", op, ctx.Err()) }
StorageCtxOver(c) == ctxDone(c)

\* The error of a database call made with a context: the context's error when
\* it is done, else the driver's failure if it fails.
StmtErr(c, ok) ==
  IF ctxDone(c) THEN ctxErr(c) ELSE IF ~ok THEN <<DriverErr>> ELSE Nil

\* Variant: Scan does not report a missing row.
QueryRowErr_NoErrNoRows(c, ok, found) == StmtErr(c, ok)
\* QueryRowxContext(ctx, ...).Scan(&v): as above, and sql.ErrNoRows on no row
QueryRowErr(c, ok, found) ==
  IF StmtErr(c, ok) # Nil THEN StmtErr(c, ok)
  ELSE IF ~found THEN <<ErrNoRows>> ELSE Nil

\* Variant: sql.ErrNoRows wrapped like any other error.
existenceError_Generic(op, err) == Wrap(StOp(op), err)
\* if errors.Is(err, sql.ErrNoRows) { return ... ErrNotFound }; return ... err
existenceError(op, err) ==
  IF Is(err, ErrNoRows) THEN Wrap(StOp(op), <<DbErrNotFound>>)
  ELSE Wrap(StOp(op), err)

\* Variant: the input item handed back, its Id and CartId left unset.
addedItem_Echo(itemId, cartId, product, quantity) ==
  [Id |-> 0, CartId |-> 0, Product |-> product, Quantity |-> quantity]
\* return models.CartItem{Id: itemId, CartId: cartId, Product: ..., Quantity: ...}
addedItem(itemId, cartId, product, quantity) ==
  [Id |-> itemId, CartId |-> cartId, Product |-> product, Quantity |-> quantity]

InFlight(u) == pc[u] \notin {"idle", "done"}
IsWrite(op) == op \in {"AddToCart", "RemoveFromCart"}
\* Another request that writes to cart c is under way.
Writer(w, c) ==
  \E u \in Workers \ {w} : InFlight(u) /\ IsWrite(req[u].op) /\ req[u].cartId = c

\* The record of the carts once the Storage method of request r has started.
HistTouch(w, r) ==
  IF IsWrite(r.op)
  THEN [hist EXCEPT ![r.cartId] =
          IF r.op = "AddToCart" /\ @.ops = "new" /\ ~Writer(w, r.cartId)
          THEN [ZeroHist EXCEPT !.ops = "adding"]
          ELSE ZeroHist]
  ELSE hist

\* The record of the carts once the Storage method of r has returned ret.
HistAfter(h, r, ret) ==
  IF r.op = "CreateCart" /\ ret.err = Nil
  THEN [h EXCEPT ![ret.cart.Id] =
          IF \E u \in Workers : /\ InFlight(u) /\ IsWrite(req[u].op)
                                /\ req[u].cartId = ret.cart.Id
          THEN ZeroHist
          ELSE [ZeroHist EXCEPT !.ops = "new"]]
  ELSE IF r.op = "AddToCart" /\ h[r.cartId].ops = "adding"
  THEN [h EXCEPT ![r.cartId] =
          IF ret.err = Nil THEN [ops |-> "added", item |-> ret.item]
          ELSE ZeroHist]
  ELSE h

\* The removals so far: <<c, i>> once a RemoveFromCart(c, i) that deleted the
\* link of item i to cart c has returned success.
GoneAfter(w, r, ret) ==
  IF /\ r.op = "RemoveFromCart" /\ ret.err = Nil
     /\ \E l \in db.links : /\ l.id \in tx[w].delLinks
                             /\ l.cart_id = r.cartId
                             /\ l.item_id = r.itemId
  THEN gone \cup {<<r.cartId, r.itemId>>}
  ELSE gone

\* No request is at its return: a finished request is handed back first.
Quiet == \A u \in Workers : pc[u] # "done"

\* The record g of a call after it issued the database calls tags, the last
\* under context c with the driver working (ok) or failing.
Note(g, tags, c, ok) ==
  [g EXCEPT !.issued = @ \o tags, !.faulted = @ \/ (~ctxDone(c) /\ ~ok)]

\* The Storage method of request r returns ret, and the service method with it.
Return(w, r, c, ret, h) ==
  /\ pc' = [pc EXCEPT ![w] = "done"]
  /\ ctx' = [ctx EXCEPT ![w] = c]
  /\ st' = [st EXCEPT ![w] = ret]
  /\ sv' = [sv EXCEPT ![w] = ServiceResult(r.op, ret)]
  /\ hist' = HistAfter(h, r, ret)
  /\ gone' = GoneAfter(w, r, ret)

\* Variant: the transaction is left open on an error return.
TxFail_LeftOpen(w, r, t, c, e, h) ==
  /\ Return(w, r, c, [ZeroRet EXCEPT !.err = e], h)
  /\ db' = db
  /\ tx' = [tx EXCEPT ![w] = t]
\* An error return after Beginx succeeded: the deferred Rollback runs on t.
TxFail(w, r, t, c, e, h) ==
  /\ Return(w, r, c, [ZeroRet EXCEPT !.err = e], h)
  /\ db' = Rollback(t, db)
  /\ tx' = [tx EXCEPT ![w] = [t EXCEPT !.state = "rolledback"]]

\* The next statement of w is reached.
Goto(w, next) ==
  /\ pc' = [pc EXCEPT ![w] = next]
  /\ UNCHANGED <<ctx, st, sv, hist, gone>>

\* A method returns at one of the two context checks: the service's, with the
\* context c0, or the Storage method's own, with the context c1.
Service_Refuse(w, r, c0, c1) ==
  /\ pc' = [pc EXCEPT ![w] = "done"]
  /\ IF ServiceCtxOver(c0)
     THEN /\ ctx' = [ctx EXCEPT ![w] = c0]
          /\ sv' = [sv EXCEPT ![w] = [ZeroRet EXCEPT !.err = handleContextError(c0, r.op)]]
          /\ gh' = [gh EXCEPT ![w] = [ZeroGhost EXCEPT !.svCtx = c0]]
          /\ UNCHANGED st
     ELSE /\ ctx' = [ctx EXCEPT ![w] = c1]
          /\ st' = [st EXCEPT ![w] = [ZeroRet EXCEPT !.err = Wrap(StOp(r.op), ctxErr(c1))]]
          /\ sv' = [sv EXCEPT ![w] = ServiceResult(r.op, st'[w])]
          /\ gh' = [gh EXCEPT ![w] = [ZeroGhost EXCEPT !.svCtx = c0, !.stCalled = TRUE,
                                                       !.stCtx = c1]]
  /\ UNCHANGED <<db, tx, loc, hist, gone>>

\* The record of a call whose two context checks let it through.
Entered(c0, c1) == [ZeroGhost EXCEPT !.svCtx = c0, !.stCalled = TRUE, !.stCtx = c1]

\* The context of w at its next statement, and whether the driver works.
StepCtx(w) == IF w \in Faulty THEN CtxAfter(ctx[w]) ELSE {ctx[w]}
StepOk(w) == IF w \in Faulty THEN BOOLEAN ELSE {TRUE}

\* The start of a transactional Storage method: s.db.Beginx(), which takes no
\* context, and defer tx.Rollback().
Storage_Begin(w, r, c0, c1, okB, next) ==
  LET gB == Note(Entered(c0, c1), <<"begin">>, "live", okB)
      h == HistTouch(w, r)
  IN IF ~okB
     THEN /\ Return(w, r, c1, [ZeroRet EXCEPT !.err = Wrap(StOp(r.op), <<DriverErr>>)], h)
          /\ gh' = [gh EXCEPT ![w] = gB]
          /\ UNCHANGED <<db, tx>>
     ELSE /\ pc' = [pc EXCEPT ![w] = next]
          /\ ctx' = [ctx EXCEPT ![w] = c1]
          /\ tx' = [tx EXCEPT ![w] = [ZeroTx EXCEPT !.state = "open"]]
          /\ gh' = [gh EXCEPT ![w] = gB]
          /\ hist' = h
          /\ UNCHANGED <<db, st, sv, gone>>

\* A statement of the transaction failed under the context c: the method is
\* returning the error e, and its deferred tx.Rollback() is still to run.
Fail(w, c, e) ==
  /\ pc' = [pc EXCEPT ![w] = "rollback"]
  /\ ctx' = [ctx EXCEPT ![w] = c]
  /\ st' = [st EXCEPT ![w] = [ZeroRet EXCEPT !.err = e]]
  /\ UNCHANGED <<db, tx, sv, hist, gone>>

\* SELECT id FROM cart WHERE id=$1, in the transaction
Storage_CheckCart(w, next) ==
  \E c \in StepCtx(w), ok \in StepOk(w) :
    LET e == QueryRowErr(c, ok, req[w].cartId \in db.carts) IN
    /\ gh' = [gh EXCEPT ![w] = Note(@, <<"select cart">>, c, ok)]
    /\ IF e # Nil
       THEN Fail(w, c, existenceError(req[w].op, e))
       ELSE Goto(w, next) /\ UNCHANGED <<db, tx>>

\* The deferred tx.Rollback() of a method that is returning an error, and
\* the return.
Storage_Rollback(w) ==
  /\ pc[w] = "rollback" /\ Quiet
  /\ TxFail(w, req[w], tx[w], ctx[w], st[w].err, hist)
  /\ gh' = [gh EXCEPT ![w] = Note(@, <<"rollback">>, "live", TRUE)]
  /\ UNCHANGED <<req, loc, http, view, url, route, app>>

\* CartApiService.CreateCart -> Storage.CreateCart:
\* INSERT INTO cart DEFAULT VALUES RETURNING id, in no transaction: the row is
\* stored once the server has run the statement.  Scan fails when the context
\* ends or the connection fails before the returned row is read, which may be
\* before the server ran the statement or after (stored).
CreateCart_Call(w) ==
  /\ pc[w] = "idle" /\ Quiet
  /\ \E c0 \in CtxStates : \E c1 \in CtxAfter(c0) : \E c2 \in CtxAfter(c1), ok \in BOOLEAN :
     \E stored \in BOOLEAN :
       LET r == [ZeroReq EXCEPT !.op = "CreateCart"]
           e == StmtErr(c2, ok)
           id == db.cartSeq + 1 IN
       /\ req' = [req EXCEPT ![w] = r]
       /\ IF ServiceCtxOver(c0) \/ StorageCtxOver(c1)
          THEN stored /\ Service_Refuse(w, r, c0, c1)
          ELSE /\ gh' = [gh EXCEPT ![w] = Note(Entered(c0, c1), <<"insert cart">>, c2, ok)]
               /\ e = Nil => stored
               /\ IF stored
                  THEN /\ db.cartSeq < MaxCarts
                       /\ db' = [db EXCEPT !.cartSeq = id, !.carts = @ \cup {id}]
                  ELSE UNCHANGED db
               /\ IF e # Nil
                  THEN Return(w, r, c2, [ZeroRet EXCEPT !.err = Wrap(StOp("CreateCart"), e)], hist)
                  ELSE Return(w, r, c2, [ZeroRet EXCEPT !.cart = [ZeroCart EXCEPT !.Id = id]], hist)
               /\ UNCHANGED <<tx, loc>>

\* CreateCart called by any caller of the service
CreateCart(w) == CreateCart_Call(w) /\ UNCHANGED <<http, view, url, route, app>>

\* CartApiService.AddToCart -> Storage.AddToCart, up to s.db.Beginx()
AddToCart_Item(w, cartId, item) ==
  /\ pc[w] = "idle" /\ Quiet
  /\ \E c0 \in CtxStates : \E c1 \in CtxAfter(c0) :
       \E okB \in BOOLEAN :
         LET r == [ZeroReq EXCEPT !.op = "AddToCart", !.cartId = cartId,
                                  !.product = item.Product, !.quantity = item.Quantity,
                                  !.argId = item.Id, !.argCartId = item.CartId] IN
         /\ req' = [req EXCEPT ![w] = r]
         /\ IF ServiceCtxOver(c0) \/ StorageCtxOver(c1)
            THEN Service_Refuse(w, r, c0, c1)
            ELSE Storage_Begin(w, r, c0, c1, okB, "at_cart") /\ UNCHANGED loc

\* AddToCart called with an item that carries a product and a quantity
AddToCart_Call(w, cartId, b) ==
  AddToCart_Item(w, cartId, [ZeroItem EXCEPT !.Product = b.product, !.Quantity = b.quantity])

\* AddToCart called by any caller of the service
AddToCart(w) ==
  \E cartId \in CartIds, b \in CallBodies :
    AddToCart_Call(w, cartId, b) /\ UNCHANGED <<http, view, url, route, app>>

\* Storage.AddToCart: the cart check
AddToCart_CheckCart(w) ==
  /\ pc[w] = "at_cart" /\ Quiet
  /\ Storage_CheckCart(w, "at_item")
  /\ UNCHANGED <<req, loc, http, view, url, route, app>>

\* The id of a new item row: item.id is SERIAL, and the sequence behind it is
\* shared by all transactions and never rolled back.
\* Variant: the id taken from the committed rows, as SELECT max(id) + 1 would.
nextItemId_FromCommitted(d) ==
  (CHOOSE m \in ItemIds \cup {0} :
     /\ m \in {r.id : r \in d.items} \cup {0}
     /\ \A r \in d.items : r.id <= m) + 1
nextItemId(d) == d.itemSeq + 1

\* INSERT INTO item (product, quantity) VALUES ($1, $2) RETURNING id
AddToCart_InsertItem(w) ==
  /\ pc[w] = "at_item" /\ Quiet
  /\ \E c \in StepCtx(w), ok \in StepOk(w) :
       LET e == StmtErr(c, ok)
           id == nextItemId(db) IN
       IF e # Nil
       THEN /\ Fail(w, c, Wrap(StOp("AddToCart"), e))
            /\ gh' = [gh EXCEPT ![w] = Note(@, <<"insert item">>, c, ok)]
            /\ UNCHANGED loc
       ELSE /\ db.itemSeq < MaxItems
            /\ db' = [db EXCEPT !.itemSeq = id]
            /\ tx' = [tx EXCEPT ![w].insItems =
                        @ \cup {[id |-> id, product |-> req[w].product,
                                 quantity |-> req[w].quantity]}]
            /\ loc' = [loc EXCEPT ![w].itemId = id]
            /\ Goto(w, "at_link")
            /\ gh' = [gh EXCEPT ![w] = Note(@, <<"insert item">>, c, ok)]
  /\ UNCHANGED <<req, http, view, url, route, app>>

\* The item argument of the AddToCart call r
ItemArg(r) ==
  [Id |-> r.argId, CartId |-> r.argCartId, Product |-> r.product, Quantity |-> r.quantity]

\* The cart_id of the new cart_item row: VALUES ($1, $2) with cartId, itemId.
\* Variant: the CartId of the item argument, when it has one.
linkCartId_FromItem(cartId, item) == IF item.CartId # 0 THEN item.CartId ELSE cartId
linkCartId(cartId, item) == cartId

\* INSERT INTO cart_item (cart_id, item_id) VALUES ($1, $2)
AddToCart_InsertLink(w) ==
  /\ pc[w] = "at_link" /\ Quiet
  /\ \E c \in StepCtx(w), ok \in StepOk(w) :
       LET e == StmtErr(c, ok)
           id == db.linkSeq + 1 IN
       IF e # Nil
       THEN /\ Fail(w, c, Wrap(StOp("AddToCart"), e))
            /\ gh' = [gh EXCEPT ![w] = Note(@, <<"insert cart_item">>, c, ok)]
            /\ UNCHANGED loc
       ELSE /\ db' = [db EXCEPT !.linkSeq = id]
            /\ tx' = [tx EXCEPT ![w].insLinks =
                        @ \cup {[id |-> id,
                                 cart_id |-> linkCartId(req[w].cartId, ItemArg(req[w])),
                                 item_id |-> loc[w].itemId]}]
            /\ loc' = [loc EXCEPT ![w].linkId = id]
            /\ Goto(w, "at_commit")
            /\ gh' = [gh EXCEPT ![w] = Note(@, <<"insert cart_item">>, c, ok)]
  /\ UNCHANGED <<req, http, view, url, route, app>>

\* if err := tx.Commit(); err != nil { return zero, wrapped err }; return ret.
\* Commit takes no context: c is what the context has become by then.  A
\* Commit that fails (~ok) returns the driver's error whether the connection
\* failed before the server committed or after it and before its answer
\* arrived (stored).  Once Commit has been called the deferred Rollback finds
\* the transaction done; a transaction the server did not commit is ended by
\* the server, in a step of its own.
Storage_Commit(w, c, ok, ret) ==
  \E stored \in (IF ok THEN {TRUE} ELSE BOOLEAN) :
    LET e == Wrap(StOp(req[w].op), <<DriverErr>>) IN
    /\ gh' = [gh EXCEPT ![w] =
                [Note(@, IF stored THEN <<"commit", "rollback">> ELSE <<"commit">>, "live", ok)
                   EXCEPT !.commitCtx = c]]
    /\ IF stored
       THEN /\ db' = Rollback([tx[w] EXCEPT !.state = "committed"], Commit(tx[w], db))
            /\ tx' = [tx EXCEPT ![w].state = "committed"]
            /\ Return(w, req[w], c, IF ok THEN ret ELSE [ZeroRet EXCEPT !.err = e], hist)
       ELSE Fail(w, c, e)

\* tx.Commit() of AddToCart and the CartItem it returns
AddToCart_Commit(w) ==
  /\ pc[w] = "at_commit" /\ Quiet
  /\ \E c \in StepCtx(w), ok \in StepOk(w) :
       Storage_Commit(w, c, ok,
                      [ZeroRet EXCEPT !.item =
                         addedItem(loc[w].itemId, req[w].cartId,
                                   req[w].product, req[w].quantity)])
  /\ UNCHANGED <<req, loc, http, view, url, route, app>>

\* CartApiService.RemoveFromCart -> Storage.RemoveFromCart, up to s.db.Beginx()
RemoveFromCart_Call(w, cartId, itemId) ==
  /\ pc[w] = "idle" /\ Quiet
  /\ \E c0 \in CtxStates : \E c1 \in CtxAfter(c0) :
       \E okB \in BOOLEAN :
         LET r == [ZeroReq EXCEPT !.op = "RemoveFromCart", !.cartId = cartId,
                                  !.itemId = itemId] IN
         /\ req' = [req EXCEPT ![w] = r]
         /\ IF ServiceCtxOver(c0) \/ StorageCtxOver(c1)
            THEN Service_Refuse(w, r, c0, c1)
            ELSE Storage_Begin(w, r, c0, c1, okB, "rf_cart") /\ UNCHANGED loc

\* RemoveFromCart called by any caller of the service
RemoveFromCart(w) ==
  \E cartId \in CartIds, itemId \in ItemIds :
    RemoveFromCart_Call(w, cartId, itemId) /\ UNCHANGED <<http, view, url, route, app>>

\* Storage.RemoveFromCart: the cart check
RemoveFromCart_CheckCart(w) ==
  /\ pc[w] = "rf_cart" /\ Quiet
  /\ Storage_CheckCart(w, "rf_item")
  /\ UNCHANGED <<req, loc, http, view, url, route, app>>

\* SELECT id FROM item WHERE id=$1, in the transaction
RemoveFromCart_CheckItem(w) ==
  /\ pc[w] = "rf_item" /\ Quiet
  /\ \E c \in StepCtx(w), ok \in StepOk(w) :
       LET e == QueryRowErr(c, ok, \E r \in db.items : r.id = req[w].itemId) IN
       IF e # Nil
       THEN /\ Fail(w, c, existenceError("RemoveFromCart", e))
            /\ gh' = [gh EXCEPT ![w] = Note(@, <<"select item">>, c, ok)]
       ELSE /\ Goto(w, "rf_dlink")
            /\ gh' = [gh EXCEPT ![w] = Note(@, <<"select item">>, c, ok)]
            /\ UNCHANGED <<db, tx>>
  /\ UNCHANGED <<req, loc, http, view, url, route, app>>

\* DELETE FROM cart_item WHERE cart_id=$1 AND item_id=$2; the statement waits
\* for a row another transaction has deleted and not yet committed.
RemoveFromCart_DeleteLink(w) ==
  /\ pc[w] = "rf_dlink" /\ Quiet
  /\ \E c \in StepCtx(w), ok \in StepOk(w) :
       LET e == StmtErr(c, ok)
           hit == {l.id : l \in {m \in db.links : m.cart_id = req[w].cartId
                                                  /\ m.item_id = req[w].itemId}} IN
       IF e # Nil
       THEN /\ Fail(w, c, Wrap(StOp("RemoveFromCart"), e))
            /\ gh' = [gh EXCEPT ![w] = Note(@, <<"delete cart_item">>, c, ok)]
       ELSE /\ hit \cap LockedLinks(w) = {}
            /\ tx' = [tx EXCEPT ![w].delLinks = @ \cup hit]
            /\ Goto(w, "rf_ditem")
            /\ gh' = [gh EXCEPT ![w] = Note(@, <<"delete cart_item">>, c, ok)]
            /\ UNCHANGED db
  /\ UNCHANGED <<req, loc, http, view, url, route, app>>

\* cart_item.item_id REFERENCES item(id) ON DELETE CASCADE: the link rows that
\* go with the deleted item rows.
\* Variant: a foreign key without the cascade that lets the delete through.
onDeleteCascade_None(d, itemIds) == {}
onDeleteCascade(d, itemIds) == {l.id : l \in {m \in d.links : m.item_id \in itemIds}}

\* DELETE FROM item WHERE id=$1, first part: the item row is deleted; the
\* statement waits for a row another transaction has deleted and not yet
\* committed, and holds the row from then on.
RemoveFromCart_DeleteItem(w) ==
  /\ pc[w] = "rf_ditem" /\ Quiet
  /\ \E c \in StepCtx(w), ok \in StepOk(w) :
       LET e == StmtErr(c, ok)
           hit == {r.id : r \in {m \in db.items : m.id = req[w].itemId}} IN
       IF e # Nil
       THEN /\ Fail(w, c, Wrap(StOp("RemoveFromCart"), e))
            /\ gh' = [gh EXCEPT ![w] = Note(@, <<"delete item">>, c, ok)]
       ELSE /\ hit \cap LockedItems(w) = {}
            /\ tx' = [tx EXCEPT ![w].delItems = @ \cup hit]
            /\ Goto(w, "rf_cascade")
            /\ gh' = [gh EXCEPT ![w] = Note(@, <<"delete item">>, c, ok)]
            /\ UNCHANGED db
  /\ UNCHANGED <<req, loc, http, view, url, route, app>>

\* The cart_item rows the cascade of w's DELETE FROM item has still to delete.
CascadeOf(w) == onDeleteCascade(db, tx[w].delItems) \ tx[w].delLinks

\* DELETE FROM item WHERE id=$1, second part: ON DELETE CASCADE takes the
\* cart_item rows of the deleted item with it, whichever cart they belong to,
\* and waits for one another transaction has deleted and not yet committed.
RemoveFromCart_Cascade(w) ==
  /\ pc[w] = "rf_cascade" /\ Quiet
  /\ \E c \in StepCtx(w), ok \in StepOk(w) :
       LET e == StmtErr(c, ok) IN
       IF e # Nil
       THEN /\ Fail(w, c, Wrap(StOp("RemoveFromCart"), e))
            /\ gh' = [gh EXCEPT ![w] = Note(@, <<>>, c, ok)]
       ELSE /\ CascadeOf(w) \cap LockedLinks(w) = {}
            /\ tx' = [tx EXCEPT ![w].delLinks = @ \cup CascadeOf(w)]
            /\ Goto(w, "rf_commit")
            /\ gh' = [gh EXCEPT ![w] = Note(@, <<>>, c, ok)]
            /\ UNCHANGED db
  /\ UNCHANGED <<req, loc, http, view, url, route, app>>

\* The requests whose open transaction holds a row the statement w is at
\* waits for.
WaitsFor(w) ==
  LET links == IF pc[w] = "rf_dlink"
               THEN {l.id : l \in {m \in db.links : m.cart_id = req[w].cartId
                                                      /\ m.item_id = req[w].itemId}}
               ELSE IF pc[w] = "rf_cascade" THEN CascadeOf(w) ELSE {}
      items == IF pc[w] = "rf_ditem"
               THEN {r.id : r \in {m \in db.items : m.id = req[w].itemId}}
               ELSE {}
  IN {u \in Workers \ {w} :
        /\ tx[u].state = "open"
        /\ (links \cap tx[u].delLinks # {} \/ items \cap tx[u].delItems # {})}

\* Two requests wait for each other: PostgreSQL detects the deadlock and
\* aborts the statement of one of them, which returns the error with its
\* context live and its connection working; the other goes on once the
\* transaction of the first is rolled back.
RemoveFromCart_Deadlock(w) ==
  /\ pc[w] \in {"rf_dlink", "rf_ditem", "rf_cascade"} /\ Quiet
  /\ \E u \in WaitsFor(w) : w \in WaitsFor(u)
  /\ Fail(w, ctx[w], Wrap(StOp("RemoveFromCart"), <<DeadlockDetected>>))
  /\ gh' = [gh EXCEPT ![w] =
              Note(@, IF pc[w] = "rf_dlink" THEN <<"delete cart_item">>
                      ELSE IF pc[w] = "rf_ditem" THEN <<"delete item">>
                      ELSE <<>>, ctx[w], TRUE)]
  /\ UNCHANGED <<req, loc, http, view, url, route, app>>

\* tx.Commit() of RemoveFromCart; return nil
RemoveFromCart_Commit(w) ==
  /\ pc[w] = "rf_commit" /\ Quiet
  /\ \E c \in StepCtx(w), ok \in StepOk(w) :
       Storage_Commit(w, c, ok, ZeroRet)
  /\ UNCHANGED <<req, loc, http, view, url, route, app>>

\* CartApiService.ViewCart -> Storage.ViewCart, up to the join query.
\* QueryxContext fails with the context's error (c2) or the driver's, or
\* answers with the rows of the tables as they are now.
ViewCart_Call(w, cartId) ==
  /\ pc[w] = "idle" /\ Quiet
  /\ \E c0 \in CtxStates : \E c1 \in CtxAfter(c0) :
       \E c2 \in CtxAfter(c1), ok \in BOOLEAN :
       \E rows \in JoinRows(db, cartId) :
         LET r == [ZeroReq EXCEPT !.op = "ViewCart", !.cartId = cartId]
             e == StmtErr(c2, ok)
             g == Note(Entered(c0, c1), <<"select join">>, c2, ok) IN
         /\ req' = [req EXCEPT ![w] = r]
         /\ IF ServiceCtxOver(c0) \/ StorageCtxOver(c1)
            THEN Service_Refuse(w, r, c0, c1)
            ELSE IF e # Nil
            THEN /\ Return(w, r, c2, [ZeroRet EXCEPT !.err = Wrap(StOp("ViewCart"), e)], hist)
                 /\ gh' = [gh EXCEPT ![w] = g]
                 /\ UNCHANGED <<db, tx, loc>>
            ELSE /\ pc' = [pc EXCEPT ![w] = "vc_next"]
                 /\ ctx' = [ctx EXCEPT ![w] = c2]
                 /\ loc' = [loc EXCEPT ![w] = [ZeroLoc EXCEPT !.rows = rows]]
                 /\ gh' = [gh EXCEPT ![w] = [g EXCEPT !.hist = hist[cartId], !.gone = gone]]
                 /\ UNCHANGED <<db, tx, st, sv, hist, gone>>

\* for rows.Next() { rows.Scan(&tmpItem...); append }: one rows.Next().  The
\* columns are written from a Go string and int, so Scan does not fail.  A
\* context that is done or a failing connection closes the rows: Next returns
\* false as it does after the last row, and what was read so far is returned
\* with a nil error: rows.Err() is not looked at.
ViewCart_Next(w) ==
  /\ pc[w] = "vc_next" /\ Quiet
  /\ \E c \in StepCtx(w), ok \in StepOk(w) :
       /\ gh' = [gh EXCEPT ![w] = Note(@, <<>>, c, ok)]
       /\ IF ctxDone(c) \/ ~ok \/ loc[w].rows = <<>>
          THEN /\ Return(w, req[w], c,
                         [ZeroRet EXCEPT !.cart =
                            [Id |-> req[w].cartId, Items |-> loc[w].items,
                             NilItems |-> FALSE]], hist)
               /\ UNCHANGED loc
          ELSE /\ loc' = [loc EXCEPT ![w].items = Append(@, Head(loc[w].rows)),
                                     ![w].rows = Tail(@)]
               /\ Goto(w, "vc_next")
  /\ UNCHANGED <<db, tx, req, http, view, url, route, app>>

\* ViewCart called by any caller of the service
ViewCart(w) == \E cartId \in CartIds : ViewCart_Call(w, cartId) /\ UNCHANGED <<http, view, url, route, app>>

\* The caller has the result; the goroutine of the request ends.
Service_Done(w) ==
  /\ pc[w] = "done"
  /\ pc' = [pc EXCEPT ![w] = "idle"]
  /\ req' = [req EXCEPT ![w] = ZeroReq]
  /\ ctx' = [ctx EXCEPT ![w] = "live"]
  /\ tx' = [tx EXCEPT ![w] = ZeroTx]
  /\ loc' = [loc EXCEPT ![w] = ZeroLoc]
  /\ st' = [st EXCEPT ![w] = ZeroRet]
  /\ sv' = [sv EXCEPT ![w] = ZeroRet]
  /\ gh' = [gh EXCEPT ![w] = ZeroGhost]
  /\ http' = [http EXCEPT ![w] = ZeroHttp]
  /\ view' = [view EXCEPT ![w] = ZeroView]
  /\ route' = [route EXCEPT ![w] = ZeroRoute]
  /\ UNCHANGED <<url, app>>
  /\ UNCHANGED <<db, hist, gone>>

Init ==
  /\ db = EmptyDb
  /\ pc = [w \in Workers |-> "idle"]
  /\ req = [w \in Workers |-> ZeroReq]
  /\ ctx = [w \in Workers |-> "live"]
  /\ tx = [w \in Workers |-> ZeroTx]
  /\ loc = [w \in Workers |-> ZeroLoc]
  /\ st = [w \in Workers |-> ZeroRet]
  /\ sv = [w \in Workers |-> ZeroRet]
  /\ gh = [w \in Workers |-> ZeroGhost]
  /\ hist = [c \in CartIds |-> ZeroHist]
  /\ gone = {}
  /\ http = [w \in Workers |-> ZeroHttp]
  /\ view = [w \in Workers |-> ZeroView]
  /\ url = ZeroUrl
  /\ route = [w \in Workers |-> ZeroRoute]
  /\ app = ZeroApp

Next ==
  \E w \in Workers :
    \/ CreateCart(w)
    \/ AddToCart(w)
    \/ AddToCart_CheckCart(w)
    \/ AddToCart_InsertItem(w)
    \/ AddToCart_InsertLink(w)
    \/ AddToCart_Commit(w)
    \/ RemoveFromCart(w)
    \/ RemoveFromCart_CheckCart(w)
    \/ RemoveFromCart_CheckItem(w)
    \/ RemoveFromCart_DeleteLink(w)
    \/ RemoveFromCart_DeleteItem(w)
    \/ RemoveFromCart_Cascade(w)
    \/ RemoveFromCart_Deadlock(w)
    \/ RemoveFromCart_Commit(w)
    \/ ViewCart(w)
    \/ ViewCart_Next(w)
    \/ Storage_Rollback(w)
    \/ Service_Done(w)

Spec == Init /\ [][Next]_vars

\* ------------------------------------------------- service over a mock Storage
\* The service depends on Storage only through the CartItemStorage interface;
\* here Storage is a mock that may return any error chain over the errors the
\* service tells apart, or a value.
MockAtoms == {Canceled, DeadlineExceeded, DbErrNotFound, DriverErr}
MockErrs(op) ==
  {<<StOp(op), a>> : a \in MockAtoms} \cup
  {<<StOp(op), a, b>> : a \in MockAtoms, b \in MockAtoms}
MockValue(op, cartId, b) ==
  CASE op \in {"CreateCart", "ViewCart"} ->
         [ZeroRet EXCEPT !.cart = [Id |-> cartId, Items |-> <<>>, NilItems |-> FALSE]]
    [] op = "AddToCart" ->
         [ZeroRet EXCEPT !.item = addedItem(1, cartId, b.product, b.quantity)]
    [] OTHER -> ZeroRet
MockReturns(op, cartId, b) ==
  {[ZeroRet EXCEPT !.err = e] : e \in MockErrs(op)} \cup {MockValue(op, cartId, b)}

Ops == {"CreateCart", "AddToCart", "RemoveFromCart", "ViewCart"}

\* A service method called with the context c0 over the mock.
Service_OverMock(w) ==
  /\ pc[w] = "idle" /\ Quiet
  /\ \E op \in Ops, cartId \in CartIds, b \in Bodies, c0 \in CtxStatesAny :
       \E ret \in MockReturns(op, cartId, b) :
         /\ req' = [req EXCEPT ![w] = [ZeroReq EXCEPT !.op = op, !.cartId = cartId]]
         /\ pc' = [pc EXCEPT ![w] = "done"]
         /\ ctx' = [ctx EXCEPT ![w] = c0]
         /\ IF ServiceCtxOver(c0)
            THEN /\ sv' = [sv EXCEPT ![w] = [ZeroRet EXCEPT !.err = handleContextError(c0, op)]]
                 /\ gh' = [gh EXCEPT ![w] = [ZeroGhost EXCEPT !.svCtx = c0]]
                 /\ UNCHANGED st
            ELSE /\ st' = [st EXCEPT ![w] = ret]
                 /\ sv' = [sv EXCEPT ![w] = ServiceResult(op, ret)]
                 /\ gh' = [gh EXCEPT ![w] = Entered(c0, c0)]
  /\ UNCHANGED <<db, tx, loc, hist, gone, http, view, url, route, app>>

NextSvc == \E w \in Workers : Service_OverMock(w) \/ Service_Done(w)

SpecSvc == Init /\ [][NextSvc]_vars

\* ------------------------------------------------------------- HTTP handlers
StatusClientClosedRequest == 499
StatusGatewayTimeout == 504
StatusNotFound == 404
StatusInternalServerError == 500
StatusBadRequest == 400
StatusCreated == 201
StatusNoContent == 204
StatusOK == 200

MaxIdLen == 2
IdChars == {"0", "1", "2", "-", "+", "a"}
\* The path parameters a request may carry: strings of at most MaxIdLen characters.
IdStrs == UNION {[1..n -> IdChars] : n \in 0..MaxIdLen}

DigitVal(ch) ==
  CASE ch = "0" -> 0 [] ch = "1" -> 1 [] ch = "2" -> 2 [] ch = "3" -> 3 [] ch = "4" -> 4
    [] ch = "5" -> 5 [] ch = "6" -> 6 [] ch = "7" -> 7 [] ch = "8" -> 8 [] ch = "9" -> 9
    [] OTHER -> 10
RECURSIVE DecVal(_)
DecVal(ds) ==
  IF ds = <<>> THEN 0
  ELSE 10 * DecVal(SubSeq(ds, 1, Len(ds) - 1)) + DigitVal(ds[Len(ds)])
\* strconv.Atoi on a string short enough not to overflow: an optional sign,
\* then one or more decimal digits.
Atoi(str) ==
  LET signed == Len(str) > 0 /\ str[1] \in {"+", "-"}
      ds == IF signed THEN Tail(str) ELSE str IN
  IF ds = <<>> \/ \E i \in 1..Len(ds) : DigitVal(ds[i]) > 9
  THEN [err |-> TRUE, n |-> 0]
  ELSE [err |-> FALSE, n |-> IF signed /\ str[1] = "-" THEN 0 - DecVal(ds) ELSE DecVal(ds)]

\* Variant: the id <= 0 test is missing.
parseCartID_AnyInteger(str) ==
  LET a == Atoi(str) IN
  IF a.err THEN [err |-> TRUE, id |-> 0] ELSE [err |-> FALSE, id |-> a.n]
\* parseCartID
parseCartID(str) ==
  LET a == Atoi(str) IN
  IF a.err THEN [err |-> TRUE, id |-> 0]
  ELSE IF a.n <= 0 THEN [err |-> TRUE, id |-> 0]
  ELSE [err |-> FALSE, id |-> a.n]
\* parseItemID
parseItemID(str) ==
  LET a == Atoi(str) IN
  IF a.err THEN [err |-> TRUE, id |-> 0]
  ELSE IF a.n <= 0 THEN [err |-> TRUE, id |-> 0]
  ELSE [err |-> FALSE, id |-> a.n]

\* The bodies a request may carry.
JProducts == {JAbsent, JNull, JStr(""), JStr("apple"), JStr("pear"), JNum(3)}
JQuantities == {JAbsent, JNull, JNum(0 - 1), JNum(0), JNum(1), JNum(3), JStr("3"), JFrac}
\* The members "id" and "cart_id" of a body: absent, or the id of an item and
\* of a cart the tables can hold.
JIds == {JAbsent, JNum(1)}
JCartIds == {JAbsent, JNum(MaxCarts)}
RawBodies ==
  {[ZeroBody EXCEPT !.kind = k] : k \in {"unreadable", "empty", "malformed", "null", "array"}}
  \cup {[kind |-> "object", id |-> i, cart_id |-> c, product |-> p, quantity |-> q] :
          i \in JIds, c \in JCartIds, p \in JProducts, q \in JQuantities}

\* json.Unmarshal(requestBody, &item) with item a zero models.CartItem: input
\* that is empty or not JSON is an error, null leaves item as it is, a value
\* that is no object is an error, and in an object a string "product" and
\* the integers "id", "cart_id" and "quantity" are stored, null and absent
\* members are skipped, and a member of another type is an error that leaves
\* its field alone.
Unmarshal(body) ==
  CASE body.kind \in {"empty", "malformed", "array"} -> [err |-> TRUE, item |-> ZeroItem]
    [] body.kind = "null" -> [err |-> FALSE, item |-> ZeroItem]
    [] OTHER ->
         [err |-> \/ body.product.t \in {"number", "frac"}
                  \/ body.quantity.t \in {"string", "frac"}
                  \/ body.id.t \in {"string", "frac"}
                  \/ body.cart_id.t \in {"string", "frac"},
          item |-> [ZeroItem EXCEPT
                      !.Id = IF body.id.t = "number" THEN body.id.n ELSE @,
                      !.CartId = IF body.cart_id.t = "number" THEN body.cart_id.n ELSE @,
                      !.Product = IF body.product.t = "string" THEN body.product.s ELSE @,
                      !.Quantity = IF body.quantity.t = "number" THEN body.quantity.n ELSE @]]

\* What a handler decides before it calls the service: the message of its 400
\* response, or "" and the arguments of the call.
Admitted(cartId, itemId, item) ==
  [reject |-> "", cartId |-> cartId, itemId |-> itemId, item |-> item]
Rejected(msg) == [reject |-> msg, cartId |-> 0, itemId |-> 0, item |-> ZeroItem]

\* Variant: an empty product is let through.
validateItem_AnyProduct(item) ==
  IF item.Quantity <= 0 THEN "Quantity must be greater than zero" ELSE ""
\* Variant: a quantity of zero is let through.
validateItem_ZeroQuantity(item) ==
  IF item.Product = "" THEN "Product field is required"
  ELSE IF item.Quantity < 0 THEN "Quantity must be greater than zero"
  ELSE ""
\* Handler.AddToCart, the checks of the decoded item
validateItem(item) ==
  IF item.Product = "" THEN "Product field is required"
  ELSE IF item.Quantity <= 0 THEN "Quantity must be greater than zero"
  ELSE ""

\* Handler.AddToCart up to the service call
Admit_AddToCart(cartIdStr, body) ==
  LET c == parseCartID(cartIdStr)
      u == Unmarshal(body) IN
  IF c.err THEN Rejected("Invalid cart ID")
  ELSE IF body.kind = "unreadable" THEN Rejected("Cannot read request body")
  ELSE IF u.err THEN Rejected("Cannot unmarshal request body")
  ELSE IF validateItem(u.item) # "" THEN Rejected(validateItem(u.item))
  ELSE Admitted(c.id, 0, u.item)
\* Handler.RemoveFromCart up to the service call
Admit_RemoveFromCart(cartIdStr, itemIdStr) ==
  LET c == parseCartID(cartIdStr)
      i == parseItemID(itemIdStr) IN
  IF c.err THEN Rejected("Invalid cart ID")
  ELSE IF i.err THEN Rejected("Invalid item ID")
  ELSE Admitted(c.id, i.id, ZeroItem)
\* Handler.ViewCart up to the service call
Admit_ViewCart(cartIdStr) ==
  LET c == parseCartID(cartIdStr) IN
  IF c.err THEN Rejected("Invalid cart ID") ELSE Admitted(c.id, 0, ZeroItem)

\* A response: the status, and the body as text, as an encoded Cart, as an
\* encoded CartItem, or none.
JsonItem(i) == [id |-> i.Id, cart_id |-> i.CartId, product |-> i.Product, quantity |-> i.Quantity]
\* json.Encoder.Encode of a models.Cart: a nil Items slice is written as
\* null, any other as an array.
JsonCart(c) ==
  [id |-> c.Id, null |-> c.NilItems,
   items |-> IF c.NilItems THEN <<>> ELSE [k \in 1..Len(c.Items) |-> JsonItem(c.Items[k])]]
ZeroResp ==
  [status |-> 0, kind |-> "none", text |-> "", cart |-> JsonCart(ZeroCart),
   item |-> JsonItem(ZeroItem)]
\* http.Error(w, msg, code)
httpError(msg, code) == [ZeroResp EXCEPT !.status = code, !.kind = "text", !.text = msg]

\* Variant: the deadline is looked for before the cancellation.
handleServiceError_DeadlineFirst(err, msg) ==
  IF Is(err, ErrDeadlineExceeded) THEN httpError("Deadline exceeded", StatusGatewayTimeout)
  ELSE IF Is(err, ErrContextCanceled) THEN httpError("Context canceled", StatusClientClosedRequest)
  ELSE IF Is(err, ErrNotFound) THEN httpError("Cart not found", StatusNotFound)
  ELSE httpError(msg, StatusInternalServerError)
\* handleServiceError
handleServiceError(err, msg) ==
  IF Is(err, ErrContextCanceled) THEN httpError("Context canceled", StatusClientClosedRequest)
  ELSE IF Is(err, ErrDeadlineExceeded) THEN httpError("Deadline exceeded", StatusGatewayTimeout)
  ELSE IF Is(err, ErrNotFound) THEN httpError("Cart not found", StatusNotFound)
  ELSE httpError(msg, StatusInternalServerError)

FailMsg(handler) ==
  CASE handler = "CreateCart" -> "Failed to create cart"
    [] handler = "AddToCart" -> "Failed to add to cart"
    [] handler = "RemoveFromCart" -> "Failed to remove from cart"
    [] OTHER -> "Failed to view the cart"

\* Variant: every success is answered with 200 and the Cart.
writeSuccess_AlwaysOK(handler, ret) ==
  [ZeroResp EXCEPT !.status = StatusOK, !.kind = "cart", !.cart = JsonCart(ret.cart)]
\* What a handler writes once the service returned a nil error.
writeSuccess(handler, ret) ==
  CASE handler = "CreateCart" ->
         [ZeroResp EXCEPT !.status = StatusCreated, !.kind = "cart", !.cart = JsonCart(ret.cart)]
    [] handler = "AddToCart" ->
         [ZeroResp EXCEPT !.status = StatusCreated, !.kind = "item", !.item = JsonItem(ret.item)]
    [] handler = "RemoveFromCart" -> [ZeroResp EXCEPT !.status = StatusNoContent]
    [] OTHER ->
         [ZeroResp EXCEPT !.status = StatusOK, !.kind = "cart", !.cart = JsonCart(ret.cart)]

\* The response of a handler that answered with the message reject before
\* the service call, or got ret from the service.
Respond(handler, reject, ret) ==
  IF reject # "" THEN httpError(reject, StatusBadRequest)
  ELSE IF ret.err # Nil THEN handleServiceError(ret.err, FailMsg(handler))
  ELSE writeSuccess(handler, ret)

\* The response to the request of w, once its handler has returned.
Response(w) == Respond(http[w].handler, http[w].reject, sv[w])
\* The handler of w called the service.
Forwarded(w) == http[w].handler # "" /\ http[w].reject = ""

\* ------------------------------------------------ handlers over a mock service
\* The handlers depend on the service only through the CartItemService
\* interface; here the service is a mock that may return any error chain over
\* the errors the handlers tell apart, or a value.
SvcMockAtoms == {ErrContextCanceled, ErrDeadlineExceeded, ErrNotFound, DriverErr}
SvcMockErrs ==
  {<<a>> : a \in SvcMockAtoms} \cup {<<a, b>> : a \in SvcMockAtoms, b \in SvcMockAtoms}
SvcMockCarts(cartId) ==
  {[Id |-> cartId, Items |-> <<>>, NilItems |-> TRUE],
   [Id |-> cartId, Items |-> <<>>, NilItems |-> FALSE],
   [Id |-> cartId, Items |-> <<addedItem(1, cartId, "apple", 3)>>, NilItems |-> FALSE]}
SvcMockValues(handler, a) ==
  CASE handler = "CreateCart" -> {[ZeroRet EXCEPT !.cart = c] : c \in SvcMockCarts(1)}
    [] handler = "ViewCart" -> {[ZeroRet EXCEPT !.cart = c] : c \in SvcMockCarts(a.cartId)}
    [] handler = "AddToCart" ->
         {[ZeroRet EXCEPT !.item = addedItem(1, a.cartId, a.item.Product, a.item.Quantity)]}
    [] OTHER -> {ZeroRet}
SvcMockReturns(handler, a) ==
  {[ZeroRet EXCEPT !.err = e] : e \in SvcMockErrs} \cup SvcMockValues(handler, a)

\* The request of w as the handler read it
HttpOf(handler, cartIdStr, itemIdStr, body, a) ==
  [handler |-> handler, cartIdStr |-> cartIdStr, itemIdStr |-> itemIdStr, body |-> body,
   reject |-> a.reject]
\* The arguments of the service call
ReqOf(handler, a) ==
  [ZeroReq EXCEPT !.op = handler, !.cartId = a.cartId, !.itemId = a.itemId,
                  !.product = a.item.Product, !.quantity = a.item.Quantity,
                  !.argId = a.item.Id, !.argCartId = a.item.CartId]

\* A handler that answers 400 without calling the service.
Handler_Reject(w, h) ==
  /\ pc' = [pc EXCEPT ![w] = "done"]
  /\ http' = [http EXCEPT ![w] = h]
  /\ UNCHANGED <<view, url, app>>
  /\ UNCHANGED <<db, req, ctx, tx, loc, st, sv, gh, hist, gone>>

\* A handler whose service call, made with the arguments a, returns ret.
Handler_Serve(w, h, a, ret) ==
  /\ pc' = [pc EXCEPT ![w] = "done"]
  /\ http' = [http EXCEPT ![w] = h]
  /\ UNCHANGED <<view, url, app>>
  /\ req' = [req EXCEPT ![w] = ReqOf(h.handler, a)]
  /\ sv' = [sv EXCEPT ![w] = ret]
  /\ UNCHANGED <<db, ctx, tx, loc, st, gh, hist, gone>>

Handler_Over(w, handler, cartIdStr, itemIdStr, body, a) ==
  LET h == HttpOf(handler, cartIdStr, itemIdStr, body, a) IN
  IF a.reject # ""
  THEN Handler_Reject(w, h)
  ELSE \E ret \in SvcMockReturns(handler, a) : Handler_Serve(w, h, a, ret)

\* Handler.CreateCart over the mock
CreateCart_OverMock(w) ==
  /\ pc[w] = "idle" /\ Quiet
  /\ UNCHANGED route
  /\ Handler_Over(w, "CreateCart", <<>>, <<>>, ZeroBody, Admitted(0, 0, ZeroItem))
\* Handler.AddToCart over the mock
AddToCart_OverMock(w) ==
  /\ pc[w] = "idle" /\ Quiet
  /\ UNCHANGED route
  /\ \E cartIdStr \in IdStrs, body \in RawBodies :
       Handler_Over(w, "AddToCart", cartIdStr, <<>>, body, Admit_AddToCart(cartIdStr, body))
\* Handler.RemoveFromCart over the mock
RemoveFromCart_OverMock(w) ==
  /\ pc[w] = "idle" /\ Quiet
  /\ UNCHANGED route
  /\ \E cartIdStr \in IdStrs, itemIdStr \in IdStrs :
       Handler_Over(w, "RemoveFromCart", cartIdStr, itemIdStr, ZeroBody,
                    Admit_RemoveFromCart(cartIdStr, itemIdStr))
\* Handler.ViewCart over the mock
ViewCart_OverMock(w) ==
  /\ pc[w] = "idle" /\ Quiet
  /\ UNCHANGED route
  /\ \E cartIdStr \in IdStrs :
       Handler_Over(w, "ViewCart", cartIdStr, <<>>, ZeroBody, Admit_ViewCart(cartIdStr))

NextHttp ==
  \E w \in Workers :
    \/ CreateCart_OverMock(w)
    \/ AddToCart_OverMock(w)
    \/ RemoveFromCart_OverMock(w)
    \/ ViewCart_OverMock(w)
    \/ Service_Done(w)

SpecHttp == Init /\ [][NextHttp]_vars

\* ------------------------------------- handlers over the service and Storage
\* One request at a time through handler, service and Storage, on the
\* database the requests before it left.
PipeWorkers == {"w1"}
PipeIdLen == 1
\* Path parameters of at most PipeIdLen characters whose value, if they have
\* one, is an id the tables can hold.
PipeCartStrs ==
  {str \in IdStrs : Len(str) <= PipeIdLen /\ (Atoi(str).err \/ Atoi(str).n <= MaxCarts)}
PipeItemStrs ==
  {str \in IdStrs : Len(str) <= PipeIdLen /\ (Atoi(str).err \/ Atoi(str).n <= MaxItems)}
\* Bodies whose item, if they carry a product and a positive quantity, is one
\* of Bodies.
PipeBodies ==
  {b \in RawBodies :
     (b.kind = "object" /\ b.product.t = "string" /\ b.quantity.t = "number")
       => \/ b.product.s = ""
          \/ b.quantity.n <= 0
          \/ [product |-> b.product.s, quantity |-> b.quantity.n] \in Bodies}

\* Handler.CreateCart -> CartApiService.CreateCart -> Storage.CreateCart
Handler_CreateCart_Req(w) ==
  /\ CreateCart_Call(w)
  /\ http' = [http EXCEPT ![w] = [ZeroHttp EXCEPT !.handler = "CreateCart"]]
  /\ UNCHANGED <<view, url, app>>

\* Handler.CreateCart called for any request
Handler_CreateCart(w) == Handler_CreateCart_Req(w) /\ UNCHANGED route

\* Handler.AddToCart -> CartApiService.AddToCart -> Storage.AddToCart, up to
\* the cart check
Handler_AddToCart_Req(w, cartIdStr, body) ==
  LET a == Admit_AddToCart(cartIdStr, body)
      h == HttpOf("AddToCart", cartIdStr, <<>>, body, a) IN
  IF a.reject # ""
  THEN Handler_Reject(w, h)
  ELSE /\ AddToCart_Item(w, a.cartId, a.item)
       /\ http' = [http EXCEPT ![w] = h]
       /\ UNCHANGED <<view, url, app>>

\* Handler.AddToCart called with any path parameter and body
Handler_AddToCart(w) ==
  /\ pc[w] = "idle" /\ Quiet
  /\ \E cartIdStr \in PipeCartStrs, body \in PipeBodies :
       Handler_AddToCart_Req(w, cartIdStr, body)
  /\ UNCHANGED route

\* Handler.RemoveFromCart -> CartApiService.RemoveFromCart ->
\* Storage.RemoveFromCart, up to the cart check
Handler_RemoveFromCart_Req(w, cartIdStr, itemIdStr) ==
  LET a == Admit_RemoveFromCart(cartIdStr, itemIdStr)
      h == HttpOf("RemoveFromCart", cartIdStr, itemIdStr, ZeroBody, a) IN
  IF a.reject # ""
  THEN Handler_Reject(w, h)
  ELSE /\ RemoveFromCart_Call(w, a.cartId, a.itemId)
       /\ http' = [http EXCEPT ![w] = h]
       /\ UNCHANGED <<view, url, app>>

\* Handler.RemoveFromCart called with any path parameters
Handler_RemoveFromCart(w) ==
  /\ pc[w] = "idle" /\ Quiet
  /\ \E cartIdStr \in PipeCartStrs, itemIdStr \in PipeItemStrs :
       Handler_RemoveFromCart_Req(w, cartIdStr, itemIdStr)
  /\ UNCHANGED route

\* Handler.ViewCart -> CartApiService.ViewCart -> Storage.ViewCart
Handler_ViewCart_Req(w, cartIdStr) ==
  LET a == Admit_ViewCart(cartIdStr)
      h == HttpOf("ViewCart", cartIdStr, <<>>, ZeroBody, a) IN
  IF a.reject # ""
  THEN Handler_Reject(w, h)
  ELSE /\ ViewCart_Call(w, a.cartId)
       /\ http' = [http EXCEPT ![w] = h]
       /\ UNCHANGED <<view, url, app>>

\* Handler.ViewCart called with any path parameter
Handler_ViewCart(w) ==
  /\ pc[w] = "idle" /\ Quiet
  /\ \E cartIdStr \in PipeCartStrs : Handler_ViewCart_Req(w, cartIdStr)
  /\ UNCHANGED route

NextPipe ==
  \E w \in PipeWorkers :
    \/ Handler_CreateCart(w)
    \/ Handler_AddToCart(w)
    \/ AddToCart_CheckCart(w)
    \/ AddToCart_InsertItem(w)
    \/ AddToCart_InsertLink(w)
    \/ AddToCart_Commit(w)
    \/ Handler_RemoveFromCart(w)
    \/ RemoveFromCart_CheckCart(w)
    \/ RemoveFromCart_CheckItem(w)
    \/ RemoveFromCart_DeleteLink(w)
    \/ RemoveFromCart_DeleteItem(w)
    \/ RemoveFromCart_Cascade(w)
    \/ RemoveFromCart_Commit(w)
    \/ Handler_ViewCart(w)
    \/ ViewCart_Next(w)
    \/ Storage_Rollback(w)
    \/ Service_Done(w)

SpecPipe == Init /\ [][NextPipe]_vars

\* ------------------------------------------- Storage.ViewCart over mock rows
\* Storage.ViewCart on a connection whose answer to the join query is set by
\* the caller, as in the tests of the package: the rows may hold values that
\* do not decode into a models.CartItem.
MaxRows == 3
MockCells ==
  [item_id : {SqlInt(1), SqlInt(2), SqlText("not_an_int")},
   cart_id : {SqlInt(1), SqlNull},
   product : {SqlText("apple"), SqlNull},
   quantity : {SqlInt(3), SqlText("many")}]
MockRows == UNION {[1..n -> MockCells] : n \in 0..MaxRows}

\* Scan into an int destination: an integer is stored; NULL and a text that
\* is no numeral are errors.
scanInt(cell) ==
  IF cell.t = "int" THEN [err |-> FALSE, n |-> cell.n] ELSE [err |-> TRUE, n |-> 0]
\* Scan into a string destination: a text is stored, an integer is stored as
\* its decimal form; NULL is an error.
scanString(cell) ==
  CASE cell.t = "text" -> [err |-> FALSE, s |-> cell.s]
    [] cell.t = "int" -> [err |-> FALSE, s |-> ToString(cell.n)]
    [] OTHER -> [err |-> TRUE, s |-> ""]

\* rows.Scan(&tmpItem.Id, &tmpItem.CartId, &tmpItem.Product, &tmpItem.Quantity):
\* the columns are stored in order, up to the first that fails.
Scan(tmpItem, row) ==
  LET a == scanInt(row.item_id)
      b == scanInt(row.cart_id)
      c == scanString(row.product)
      d == scanInt(row.quantity) IN
  IF a.err THEN [err |-> TRUE, item |-> tmpItem]
  ELSE IF b.err THEN [err |-> TRUE, item |-> [tmpItem EXCEPT !.Id = a.n]]
  ELSE IF c.err THEN [err |-> TRUE, item |-> [tmpItem EXCEPT !.Id = a.n, !.CartId = b.n]]
  ELSE IF d.err
  THEN [err |-> TRUE, item |-> [tmpItem EXCEPT !.Id = a.n, !.CartId = b.n, !.Product = c.s]]
  ELSE [err |-> FALSE,
        item |-> [Id |-> a.n, CartId |-> b.n, Product |-> c.s, Quantity |-> d.n]]

\* Variant: the row is appended whether or not Scan failed.
scanned_NoContinue(items, r) == Append(items, r.item)
\* if err := rows.Scan(...); err != nil { continue }; append(itemsByCartId, tmpItem)
scanned(items, r) == IF r.err THEN items ELSE Append(items, r.item)

\* Storage.ViewCart up to the loop: QueryxContext answers with rows.
ViewCart_Query(w) ==
  /\ pc[w] = "idle" /\ Quiet
  /\ \E cartId \in CartIds, rows \in MockRows :
       /\ req' = [req EXCEPT ![w] = [ZeroReq EXCEPT !.op = "ViewCart", !.cartId = cartId]]
       /\ view' = [view EXCEPT ![w] = [ZeroView EXCEPT !.rows = rows]]
  /\ pc' = [pc EXCEPT ![w] = "vc_loop"]
  /\ gh' = [gh EXCEPT ![w] = Note(Entered("live", "live"), <<"select join">>, "live", TRUE)]
  /\ UNCHANGED <<db, ctx, tx, loc, st, sv, hist, gone, http, url, route, app>>

\* One turn of the loop: rows.Next() delivers a row, Scan decodes it into
\* tmpItem, and the item is appended unless Scan failed.
ViewCart_Row(w) ==
  /\ pc[w] = "vc_loop"
  /\ view[w].k < Len(view[w].rows)
  /\ LET r == Scan(view[w].tmpItem, view[w].rows[view[w].k + 1]) IN
     view' = [view EXCEPT ![w] = [@ EXCEPT !.k = @ + 1, !.tmpItem = r.item,
                                           !.items = scanned(@, r)]]
  /\ UNCHANGED <<db, pc, req, ctx, tx, loc, st, sv, gh, hist, gone, http, url, route, app>>

\* rows.Next() returns false: return models.Cart{Id: cartId, Items: itemsByCartId}, nil
ViewCart_Return(w) ==
  /\ pc[w] = "vc_loop"
  /\ view[w].k = Len(view[w].rows)
  /\ Return(w, req[w], "live",
            [ZeroRet EXCEPT !.cart = [Id |-> req[w].cartId, Items |-> view[w].items,
                                      NilItems |-> FALSE]], hist)
  /\ UNCHANGED <<db, req, tx, loc, gh, http, view, url, route, app>>

NextView ==
  \E w \in PipeWorkers :
    \/ ViewCart_Query(w)
    \/ ViewCart_Row(w)
    \/ ViewCart_Return(w)
    \/ Service_Done(w)

SpecView == Init /\ [][NextView]_vars

\* ------------------------------------------------------------ ParseCartPath
\* Paths are built from a few pieces, each standing for its characters: a
\* slash, the words carts and items, a digit and a minus sign.
MaxPathLen == 8
PathPieces == {"/", "carts", "items", "1", "-"}
Paths == UNION {[1..n -> PathPieces] : n \in 0..MaxPathLen}

PieceChars(piece) ==
  CASE piece = "carts" -> <<"c", "a", "r", "t", "s">>
    [] piece = "items" -> <<"i", "t", "e", "m", "s">>
    [] OTHER -> <<piece>>
\* The string a path stands for, as the sequence of its characters.
RECURSIVE PathChars(_)
PathChars(path) ==
  IF path = <<>> THEN <<>> ELSE PieceChars(Head(path)) \o PathChars(Tail(path))

\* Variant: the path is taken as it is.
Trim_None(str) == str
\* strings.Trim(path, "/")
RECURSIVE Trim(_)
Trim(str) ==
  IF str = <<>> THEN <<>>
  ELSE IF Head(str) = "/" THEN Trim(Tail(str))
  ELSE IF str[Len(str)] = "/" THEN Trim(SubSeq(str, 1, Len(str) - 1))
  ELSE str

\* strings.Split(trimmed, "/")
RECURSIVE Split(_)
Split(str) ==
  IF \A i \in 1..Len(str) : str[i] # "/" THEN <<str>>
  ELSE LET i == CHOOSE i \in 1..Len(str) : str[i] = "/" /\ \A j \in 1..(i - 1) : str[j] # "/"
       IN <<SubSeq(str, 1, i - 1)>> \o Split(SubSeq(str, i + 1, Len(str)))

PathParams(cartId, itemId) == [err |-> FALSE, CartId |-> cartId, ItemId |-> itemId]
PathError == [err |-> TRUE, CartId |-> 0, ItemId |-> 0]

\* ParseCartPath
ParseCartPath(str) ==
  LET parts == Split(Trim(str))
      carts == PieceChars("carts")
      items == PieceChars("items") IN
  CASE Len(parts) = 2 ->
         IF parts[1] # carts THEN PathError
         ELSE IF Atoi(parts[2]).err THEN PathError
         ELSE PathParams(Atoi(parts[2]).n, 0)
    [] Len(parts) = 3 ->
         IF parts[1] # carts \/ parts[3] # items THEN PathError
         ELSE IF Atoi(parts[2]).err THEN PathError
         ELSE PathParams(Atoi(parts[2]).n, 0)
    [] Len(parts) = 4 ->
         IF parts[1] # carts \/ parts[3] # items THEN PathError
         ELSE IF Atoi(parts[2]).err THEN PathError
         ELSE IF Atoi(parts[4]).err THEN PathError
         ELSE PathParams(Atoi(parts[2]).n, Atoi(parts[4]).n)
    [] OTHER -> PathError

\* Any path may be given to ParseCartPath.
InitPath ==
  /\ db = EmptyDb
  /\ pc = [w \in Workers |-> "idle"]
  /\ req = [w \in Workers |-> ZeroReq]
  /\ ctx = [w \in Workers |-> "live"]
  /\ tx = [w \in Workers |-> ZeroTx]
  /\ loc = [w \in Workers |-> ZeroLoc]
  /\ st = [w \in Workers |-> ZeroRet]
  /\ sv = [w \in Workers |-> ZeroRet]
  /\ gh = [w \in Workers |-> ZeroGhost]
  /\ hist = [c \in CartIds |-> ZeroHist]
  /\ gone = {}
  /\ http = [w \in Workers |-> ZeroHttp]
  /\ view = [w \in Workers |-> ZeroView]
  /\ url \in {[ZeroUrl EXCEPT !.path = path] : path \in Paths}
  /\ route = [w \in Workers |-> ZeroRoute]
  /\ app = ZeroApp

\* ParseCartPath is called with the path.
ParseCartPath_Call ==
  /\ ~url.called
  /\ LET r == ParseCartPath(PathChars(url.path)) IN
     url' = [url EXCEPT !.called = TRUE, !.err = r.err, !.CartId = r.CartId,
                        !.ItemId = r.ItemId]
  /\ UNCHANGED <<db, pc, req, ctx, tx, loc, st, sv, gh, hist, gone, http, view, route, app>>

NextPath == ParseCartPath_Call

SpecPath == InitPath /\ [][NextPath]_vars

\* ------------------------------------------------------------------ router
\* Requests given to the router: a method and a URL path made of up to
\* MaxSegs segments, each after a slash, with or without a slash at the end.
MaxSegs == 4
Methods == {"GET", "POST", "DELETE", "PUT"}
RouteSegs == {"carts", "items", "1"}
RECURSIVE Slashed(_)
Slashed(segs) ==
  IF segs = <<>> THEN <<>> ELSE <<"/", Head(segs)>> \o Slashed(Tail(segs))
RoutePaths ==
  {Slashed(segs) \o t : segs \in UNION {[1..n -> RouteSegs] : n \in 0..MaxSegs},
                        t \in {<<>>, <<"/">>}} \ {<<>>}
RouteBodies ==
  {ZeroBody,
   [ZeroBody EXCEPT !.kind = "object", !.product = JStr("apple"), !.quantity = JNum(3)]}

NoRoute == [handler |-> "NotFound", cartIdStr |-> <<>>, itemIdStr |-> <<>>]
RouteTo(handler, cartIdStr, itemIdStr) ==
  [handler |-> handler, cartIdStr |-> cartIdStr, itemIdStr |-> itemIdStr]

\* Routes.pathParser
pathParser(method, str) ==
  LET parts == Split(Trim(str)) IN
  IF Len(parts) = 2 /\ method = "GET" THEN RouteTo("ViewCart", parts[2], <<>>)
  ELSE IF Len(parts) = 3 /\ parts[3] = PieceChars("items") /\ method = "POST"
  THEN RouteTo("AddToCart", parts[2], <<>>)
  ELSE IF Len(parts) = 4 /\ parts[3] = PieceChars("items") /\ method = "DELETE"
  THEN RouteTo("RemoveFromCart", parts[2], parts[4])
  ELSE NoRoute

\* Routes.Register and the default ServeMux: the pattern "/carts" takes the
\* path /carts and no other, for every method; the pattern "/carts/" takes
\* every path that begins with it; any other path gets the mux's 404.
Register(method, str) ==
  LET carts == <<"/">> \o PieceChars("carts") IN
  IF str = carts THEN RouteTo("CreateCart", <<>>, <<>>)
  ELSE IF Len(str) > Len(carts) /\ SubSeq(str, 1, Len(carts) + 1) = carts \o <<"/">>
  THEN pathParser(method, str)
  ELSE NoRoute

\* http.NotFound(w, req)
NotFound(w) ==
  /\ pc' = [pc EXCEPT ![w] = "done"]
  /\ UNCHANGED <<db, req, ctx, tx, loc, st, sv, gh, hist, gone, http, view, url, app>>

\* A request goes through the router to the handler registered for it.
Route_Request(w) ==
  /\ pc[w] = "idle" /\ Quiet
  /\ \E method \in Methods, path \in RoutePaths :
       LET d == Register(method, PathChars(path)) IN
       /\ route' = [route EXCEPT ![w] =
                      [method |-> method, path |-> path, handler |-> d.handler]]
       /\ CASE d.handler = "CreateCart" -> Handler_CreateCart_Req(w)
            [] d.handler = "AddToCart" ->
                 \E body \in RouteBodies : Handler_AddToCart_Req(w, d.cartIdStr, body)
            [] d.handler = "RemoveFromCart" ->
                 Handler_RemoveFromCart_Req(w, d.cartIdStr, d.itemIdStr)
            [] d.handler = "ViewCart" -> Handler_ViewCart_Req(w, d.cartIdStr)
            [] OTHER -> NotFound(w)

\* The response to the request of w that went through the router.
RouteResponse(w) ==
  IF route[w].handler = "NotFound"
  THEN httpError("404 page not found", StatusNotFound)
  ELSE Response(w)

NextRoute ==
  \E w \in PipeWorkers :
    \/ Route_Request(w)
    \/ AddToCart_CheckCart(w)
    \/ AddToCart_InsertItem(w)
    \/ AddToCart_InsertLink(w)
    \/ AddToCart_Commit(w)
    \/ RemoveFromCart_CheckCart(w)
    \/ RemoveFromCart_CheckItem(w)
    \/ RemoveFromCart_DeleteLink(w)
    \/ RemoveFromCart_DeleteItem(w)
    \/ RemoveFromCart_Cascade(w)
    \/ RemoveFromCart_Commit(w)
    \/ ViewCart_Next(w)
    \/ Storage_Rollback(w)
    \/ Service_Done(w)

SpecRoute == Init /\ [][NextRoute]_vars

\* ----------------------------------------------------------------- app.Run
\* What Run leaves alone: the requests are looked at as connections only.
requests == <<db, pc, req, ctx, tx, loc, st, sv, gh, hist, gone, http, view, url, route>>

\* The process lives until Run has returned.
Running == app.pc # "returned"

\* server.ListenAndServe() in its goroutine: a connection is accepted.
App_Accept(k) ==
  /\ Running /\ app.listening /\ app.conns[k] = "none"
  /\ app' = [app EXCEPT !.conns[k] = "new"]
  /\ UNCHANGED requests

\* A request arrives on a connection that is new or kept alive and is given
\* to its handler.
App_Request(k) ==
  /\ Running /\ app.conns[k] \in {"new", "idle"}
  /\ app' = [app EXCEPT !.conns[k] = "active"]
  /\ UNCHANGED requests

\* A handler returns: the connection becomes idle, or is closed when the
\* server is shutting down.
App_Respond(k) ==
  /\ Running /\ app.conns[k] = "active"
  /\ app' = [app EXCEPT !.conns[k] = IF app.listening THEN "idle" ELSE "closed"]
  /\ UNCHANGED requests

\* SIGTERM or SIGINT arrives: it is sent on the channel of Run and on the
\* channel of main, both registered with signal.Notify.
App_Signal ==
  /\ app.pc = "serving"
  /\ app' = [app EXCEPT !.pc = "signalled", !.main = "signalled"]
  /\ UNCHANGED requests

\* main, after its <-done: storage.Close(), while Run goes its own way. A
\* Run that returned an error has ended the process (MustRun panics).
Main_Close ==
  /\ app.main = "signalled"
  /\ ~(app.pc = "returned" /\ app.err)
  /\ app' = [app EXCEPT !.main = "closed", !.dbClosed = TRUE]
  /\ UNCHANGED requests

\* ctx, cancel := context.WithTimeout(..., 50*time.Millisecond);
\* server.Shutdown(ctx) begins: the listener is closed, with or without an
\* error (lnerr).
App_Shutdown ==
  /\ app.pc = "signalled"
  /\ \E lnerr \in BOOLEAN :
       app' = [app EXCEPT !.pc = "shutdown", !.listening = FALSE, !.lnerr = lnerr]
  /\ UNCHANGED requests

\* Shutdown polls: it closes the idle connections, and the new ones that
\* have sent nothing for five seconds (stale). With no connection left open
\* it returns the listener's error, and Run returns it wrapped, or nil; else
\* it waits for its timer or for the context.
App_ShutdownPoll ==
  /\ app.pc \in {"shutdown", "waiting"}
  /\ \E stale \in SUBSET {k \in Conns : app.conns[k] = "new"} :
       LET conns == [k \in Conns |->
                       IF app.conns[k] = "idle" \/ k \in stale THEN "closed"
                       ELSE app.conns[k]]
           open == \E k \in Conns : conns[k] \in {"new", "active"}
       IN app' = [app EXCEPT !.conns = conns,
                             !.pc = IF open THEN "waiting"
                                    ELSE IF app.lnerr THEN "returned" ELSE "closing",
                             !.err = ~open /\ app.lnerr]
  /\ UNCHANGED requests

\* The 50 ms pass while Shutdown waits between two polls: it returns
\* ctx.Err() and Run returns the wrapped error, whatever the connections
\* have done since the last poll.
App_ShutdownTimeout ==
  /\ app.pc = "waiting"
  /\ app' = [app EXCEPT !.pc = "returned", !.err = TRUE]
  /\ UNCHANGED requests

\* storage.Close(), then Run returns its error or nil
App_Close ==
  /\ app.pc = "closing"
  /\ \E ok \in BOOLEAN :
       app' = [app EXCEPT !.pc = "returned", !.dbClosed = TRUE, !.err = ~ok]
  /\ UNCHANGED requests

NextApp ==
  \/ \E k \in Conns : App_Accept(k) \/ App_Request(k) \/ App_Respond(k)
  \/ App_Signal
  \/ Main_Close
  \/ App_Shutdown
  \/ App_ShutdownPoll
  \/ App_ShutdownTimeout
  \/ App_Close

\* Run and main go on once they can, handlers return, and the timer of the
\* context fires; signals and requests come when they come.
SpecApp ==
  /\ Init /\ [][NextApp]_vars
  /\ WF_vars(App_Shutdown) /\ WF_vars(App_ShutdownPoll)
  /\ WF_vars(App_ShutdownTimeout) /\ WF_vars(App_Close)
  /\ WF_vars(Main_Close)
  /\ \A k \in Conns : WF_vars(App_Respond(k))

\* ---------------------------------------------------------------- properties
Done(w) == pc[w] = "done"
\* The call of w ran with a context that stayed live and a driver that did not fail.
Clean(w) == ctx[w] = "live" /\ ~gh[w].faulted
\* The Storage method called by w returns in this step.
Returns(w) == pc[w] # "done" /\ pc'[w] = "done" /\ gh'[w].stCalled
ItemIdsOf(d) == {r.id : r \in d.items}
Ids(items) == {items[k].Id : k \in 1..Len(items)}
\* The rows the query of w's ViewCart was answered with: those read and
\* those not read.
Snapshot(w) == loc[w].items \o loc[w].rows

\* C1: Storage ViewCart called with a live context for a cartId that has no
\* row in the cart table returns an error of the storage not-found kind; it
\* never returns success with an empty cart and never a generic error.
C1_ViewCartMissingCartIsNotFound ==
  \A w \in Workers :
    (Done(w) /\ req[w].op = "ViewCart" /\ gh[w].stCalled /\ Clean(w)
       /\ req[w].cartId \notin db.carts)
    => Is(st[w].err, DbErrNotFound)

\* C2: Storage AddToCart and RemoveFromCart called with a live context for a
\* cartId that has no row in the cart table return exactly the wrapped
\* storage not-found error and the zero value, and the call leaves the
\* database as it was.
C2_WriteOnMissingCartIsNotFound ==
  [][\A w \in Workers :
       (Returns(w) /\ IsWrite(req'[w].op) /\ ctx'[w] = "live" /\ ~gh'[w].faulted
          /\ req'[w].cartId \notin db.carts)
       => /\ st'[w] = [ZeroRet EXCEPT !.err = <<StOp(req'[w].op), DbErrNotFound>>]
          /\ db' = db]_vars

C2_Witness ==
  \E w \in Workers :
    /\ Done(w) /\ req[w].op = "RemoveFromCart" /\ Clean(w) /\ gh[w].stCalled
    /\ db.carts # {} /\ db.items # {} /\ req[w].cartId \notin db.carts
    /\ st[w].err = <<StOp("RemoveFromCart"), DbErrNotFound>>

\* C3: when an AddToCart or RemoveFromCart call returns, either all of its
\* writes are in the tables or none are: a call that returns an error leaves
\* the tables as they were and no item or link row it created remains; a
\* successful AddToCart adds exactly its item row and its link row; a
\* successful RemoveFromCart removes the item row and its link rows and
\* nothing else; and no step before the return changes the tables.
C3_WritesAreAtomic ==
  [][/\ (\A w \in Workers : pc'[w] # "done") => Tables(db') = Tables(db)
     /\ \A w \in Workers :
          (Returns(w) /\ IsWrite(req'[w].op)) =>
            IF st'[w].err # Nil
            THEN /\ Tables(db') = Tables(db)
                 /\ loc'[w].itemId # 0 => loc'[w].itemId \notin ItemIdsOf(db')
                 /\ loc'[w].linkId # 0 => loc'[w].linkId \notin {l.id : l \in db'.links}
            ELSE IF req'[w].op = "AddToCart"
            THEN /\ db'.items = db.items \cup
                       {[id |-> loc[w].itemId, product |-> req[w].product,
                         quantity |-> req[w].quantity]}
                 /\ db'.links = db.links \cup
                       {[id |-> loc[w].linkId, cart_id |-> req[w].cartId,
                         item_id |-> loc[w].itemId]}
                 /\ loc[w].itemId \notin ItemIdsOf(db)
            ELSE /\ db'.items = {r \in db.items : r.id # req[w].itemId}
                 /\ db'.links = {l \in db.links : l.item_id # req[w].itemId}]_vars

\* C3 (amended): when an AddToCart or RemoveFromCart call returns, either all
\* of its writes are in the tables or none are, and no step before the return
\* changes the tables.  A successful call leaves all of them.  A call that
\* returns the error of Begin, of the cart or item check, of an insert or of a
\* delete leaves none.  A call that returns the error of Commit leaves none
\* or, when the server had committed before the connection failed, all.
C3_WritesAreAllOrNothing ==
  [][/\ (\A w \in Workers : pc'[w] # "done") => Tables(db') = Tables(db)
     /\ \A w \in Workers :
          (Returns(w) /\ IsWrite(req'[w].op)) =>
            LET none == /\ Tables(db') = Tables(db)
                        /\ loc'[w].itemId # 0 => loc'[w].itemId \notin ItemIdsOf(db')
                        /\ loc'[w].linkId # 0 => loc'[w].linkId \notin {l.id : l \in db'.links}
                all == IF req'[w].op = "AddToCart"
                       THEN /\ db'.items = db.items \cup
                                  {[id |-> loc[w].itemId, product |-> req[w].product,
                                    quantity |-> req[w].quantity]}
                            /\ db'.links = db.links \cup
                                  {[id |-> loc[w].linkId, cart_id |-> req[w].cartId,
                                    item_id |-> loc[w].itemId]}
                            /\ loc[w].itemId \notin ItemIdsOf(db)
                       ELSE /\ db'.items = {r \in db.items : r.id # req[w].itemId}
                            /\ db'.links = {l \in db.links : l.item_id # req[w].itemId}
                atCommit == \E k \in 1..Len(gh'[w].issued) : gh'[w].issued[k] = "commit"
            IN /\ db'.carts = db.carts
               /\ IF st'[w].err = Nil THEN all
                  ELSE IF atCommit THEN all \/ none
                  ELSE none]_vars

\* An AddToCart whose Commit returned an error after the server had
\* committed: the call returned the error, and its item row and its link row
\* are in the tables.
C3_Witness ==
  \E w \in Workers :
    /\ Done(w) /\ req[w].op = "AddToCart" /\ st[w].err # Nil
    /\ loc[w].itemId # 0 /\ loc[w].linkId # 0
    /\ gh[w].issued = <<"begin", "select cart", "insert item", "insert cart_item",
                        "commit", "rollback">>
    /\ tx[w].state = "committed"
    /\ loc[w].itemId \in ItemIdsOf(db)
    /\ loc[w].linkId \in {l.id : l \in db.links}

\* An AddToCart whose Commit failed before the server committed: the call
\* returned the error and none of its rows is in the tables.
C3_FailedCommitRolledBack ==
  \E w \in Workers :
    /\ Done(w) /\ req[w].op = "AddToCart" /\ st[w].err # Nil
    /\ loc[w].itemId # 0 /\ loc[w].linkId # 0
    /\ gh[w].issued = <<"begin", "select cart", "insert item", "insert cart_item",
                        "commit", "rollback">>
    /\ tx[w].state = "rolledback"
    /\ loc[w].itemId \notin ItemIdsOf(db)

\* C4: each of the four Storage methods entered with a context that is
\* already done returns the zero value and an error wrapping ctx.Err()
\* (Canceled or DeadlineExceeded), begins no transaction, issues no database
\* call and leaves the database unchanged.
C4_DoneContextAtStorageEntry ==
  [][\A w \in Workers :
       (Returns(w) /\ gh'[w].stCtx # "live") =>
         /\ st'[w] = [ZeroRet EXCEPT !.err =
                        <<StOp(req'[w].op),
                          IF gh'[w].stCtx = "canceled" THEN Canceled ELSE DeadlineExceeded>>]
         /\ gh'[w].issued = <<>>
         /\ tx'[w] = ZeroTx
         /\ db' = db]_vars

C4_Witness ==
  /\ \E w \in Workers :
       /\ Done(w) /\ req[w].op = "AddToCart" /\ gh[w].stCalled
       /\ gh[w].svCtx = "live" /\ gh[w].stCtx = "deadline"
       /\ st[w].err = <<StOp("AddToCart"), DeadlineExceeded>>
  /\ db.carts # {}

\* C5: every database call of a Storage method is governed by the caller's
\* context, so an AddToCart or RemoveFromCart whose context is done by the
\* time it commits does not commit and returns a cancellation-kind error.
C5_NoCommitAfterContextDone ==
  \A w \in Workers :
    (Done(w) /\ IsWrite(req[w].op) /\ gh[w].commitCtx # "live") =>
      /\ tx[w].state # "committed"
      /\ Is(st[w].err, Canceled) \/ Is(st[w].err, DeadlineExceeded)

\* C6: a successful AddToCart(c, item) returns a CartItem whose id is newly
\* assigned (the id of no item row that is or was in the table before), whose
\* cartId is c and whose product and quantity are the input's.
C6_AddToCartReturnsNewItem ==
  [][\A w \in Workers :
       (Returns(w) /\ req'[w].op = "AddToCart" /\ st'[w].err = Nil) =>
         /\ st'[w].item.Id > 0
         /\ st'[w].item.Id \notin ItemIdsOf(db)
         /\ st'[w].item.Id \notin {p[2] : p \in gone}
         /\ st'[w].item.Id \in ItemIdsOf(db')
         /\ st'[w].item.CartId = req[w].cartId
         /\ st'[w].item.Product = req[w].product
         /\ st'[w].item.Quantity = req[w].quantity
         /\ st'[w].cart = ZeroCart]_vars

C6_Witness ==
  \E w \in Workers :
    /\ Done(w) /\ req[w].op = "AddToCart" /\ st[w].err = Nil
    /\ st[w].item = [Id |-> 2, CartId |-> 2, Product |-> "apple", Quantity |-> 3]
    /\ gone # {}

\* C7: CreateCart returning c, then a successful AddToCart(c, {p, q}), then
\* ViewCart(c), with no other AddToCart or RemoveFromCart on c in between
\* (up to the query of ViewCart), returns the cart c with exactly one item:
\* the one AddToCart returned.
C7_CreateAddViewRoundTrip ==
  \A w \in Workers :
    (Done(w) /\ req[w].op = "ViewCart" /\ gh[w].stCalled /\ Clean(w)
       /\ st[w].err = Nil /\ gh[w].hist.ops = "added")
    => st[w].cart = [Id |-> req[w].cartId,
                     Items |-> <<gh[w].hist.item>>,
                     NilItems |-> FALSE]

\* C8: once RemoveFromCart(c, i) has returned success for an item i of c,
\* every later successful ViewCart(c), one whose query ran after that
\* return, returns items that do not include i and do include every other
\* item the cart had at the query.
C8_ViewAfterRemove ==
  \A w \in Workers :
    (Done(w) /\ req[w].op = "ViewCart" /\ gh[w].stCalled /\ st[w].err = Nil
       /\ \E p \in gh[w].gone : p[1] = req[w].cartId)
    => /\ \A p \in gh[w].gone :
            p[1] = req[w].cartId => p[2] \notin Ids(st[w].cart.Items)
       /\ Ids(Snapshot(w)) \subseteq Ids(st[w].cart.Items)

\* C9: for each of the four service methods and every error e Storage
\* returns, the service returns the zero value and ErrContextCanceled if e
\* wraps context.Canceled, else ErrDeadlineExceeded if e wraps
\* context.DeadlineExceeded, else ErrNotFound if e wraps the storage
\* not-found error, else an error wrapping e itself.
C9_ServiceClassifiesStorageErrors ==
  \A w \in Workers :
    (Done(w) /\ gh[w].stCalled /\ st[w].err # Nil) =>
      LET e == st[w].err
          has(t) == \E i \in DOMAIN e : e[i] = t
          op == "service.cartapi." \o req[w].op
      IN /\ sv[w].cart = ZeroCart /\ sv[w].item = ZeroItem
         /\ sv[w].err = IF has(Canceled) THEN <<op, ErrContextCanceled>>
                        ELSE IF has(DeadlineExceeded) THEN <<op, ErrDeadlineExceeded>>
                        ELSE IF has(DbErrNotFound) THEN <<op, ErrNotFound>>
                        ELSE <<op>> \o e

C9_Witness ==
  \E w \in Workers :
    /\ Done(w) /\ req[w].op = "ViewCart" /\ gh[w].stCalled
    /\ st[w].err = <<StOp("ViewCart"), DbErrNotFound, DeadlineExceeded>>
    /\ sv[w].err = <<SvOp("ViewCart"), ErrDeadlineExceeded>>

\* C10: each of the four service methods entered with a context that is
\* already done returns ErrContextCanceled when ctx.Err() is Canceled and
\* ErrDeadlineExceeded when it is DeadlineExceeded, returns the zero value,
\* and does not call Storage.
C10_DoneContextAtServiceEntry ==
  \A w \in Workers :
    (Done(w) /\ gh[w].svCtx \in {"canceled", "deadline"}) =>
      /\ sv[w] = [ZeroRet EXCEPT !.err =
                    <<"service.cartapi." \o req[w].op,
                      IF gh[w].svCtx = "canceled" THEN ErrContextCanceled
                      ELSE ErrDeadlineExceeded>>]
      /\ ~gh[w].stCalled
      /\ st[w] = ZeroRet /\ gh[w].issued = <<>> /\ tx[w] = ZeroTx

C10_Witness ==
  /\ \E w \in Workers :
       /\ Done(w) /\ req[w].op = "RemoveFromCart" /\ gh[w].svCtx = "deadline"
       /\ sv[w].err = <<SvOp("RemoveFromCart"), ErrDeadlineExceeded>>
       /\ ~gh[w].stCalled
  /\ db.items # {}

\* C11: whenever a handler gets an error from the service, the status of its
\* response follows one mapping: 499 if the error is ErrContextCanceled,
\* otherwise 504 if it is ErrDeadlineExceeded, otherwise 404 if it is
\* ErrNotFound (AddToCart, RemoveFromCart, ViewCart), otherwise 500; and the
\* status is never a 2xx.
C11_ServiceErrorStatus ==
  \A w \in Workers :
    (Done(w) /\ Forwarded(w) /\ sv[w].err # Nil) =>
      LET e == sv[w].err
          status == Response(w).status IN
      /\ status \notin 200..299
      /\ Is(e, ErrContextCanceled) => status = StatusClientClosedRequest
      /\ (~Is(e, ErrContextCanceled) /\ Is(e, ErrDeadlineExceeded))
           => status = StatusGatewayTimeout
      /\ (~Is(e, ErrContextCanceled) /\ ~Is(e, ErrDeadlineExceeded) /\ Is(e, ErrNotFound)
            /\ http[w].handler # "CreateCart")
           => status = StatusNotFound
      /\ (~Is(e, ErrContextCanceled) /\ ~Is(e, ErrDeadlineExceeded) /\ ~Is(e, ErrNotFound))
           => status = StatusInternalServerError

\* A handler got an error that is both ErrDeadlineExceeded and
\* ErrContextCanceled and answered 499.
C11_Witness ==
  \E w \in Workers :
    /\ Done(w) /\ Forwarded(w) /\ http[w].handler = "ViewCart"
    /\ sv[w].err = <<ErrDeadlineExceeded, ErrContextCanceled>>
    /\ Response(w).status = StatusClientClosedRequest

\* C12: the AddToCart handler answers 400, and does not call the service,
\* whenever the body is empty, is not valid JSON, decodes to an empty product,
\* or decodes to a quantity <= 0.
C12_BadBodyIsBadRequest ==
  \A w \in Workers :
    LET b == http[w].body
        u == Unmarshal(b) IN
    (/\ Done(w) /\ http[w].handler = "AddToCart"
     /\ \/ b.kind \in {"empty", "malformed"}
        \/ ~u.err /\ b.kind # "unreadable" /\ (u.item.Product = "" \/ u.item.Quantity <= 0))
    => /\ Response(w).status = StatusBadRequest
       /\ ~Forwarded(w)
       /\ req[w] = ZeroReq /\ sv[w] = ZeroRet

\* AddToCart on a well-formed cart id with the body {"product":"apple",
\* "quantity":0} was answered 400.
C12_Witness ==
  \E w \in Workers :
    /\ Done(w) /\ http[w].handler = "AddToCart"
    /\ http[w].cartIdStr = <<"1">>
    /\ http[w].body = [ZeroBody EXCEPT !.kind = "object", !.product = JStr("apple"),
                                    !.quantity = JNum(0)]
    /\ Response(w).status = StatusBadRequest
    /\ req[w] = ZeroReq

\* The string is no numeral (non-numeric), or the numeral of zero or of a
\* negative integer.
NotPositive(str) == Atoi(str).err \/ Atoi(str).n <= 0

\* C13: the AddToCart, RemoveFromCart and ViewCart handlers answer 400, and
\* call no service method, whenever the cartId path parameter is non-numeric,
\* zero or negative, and so does RemoveFromCart for its itemId parameter.
C13_BadIdIsBadRequest ==
  \A w \in Workers :
    (/\ Done(w) /\ http[w].handler \in {"AddToCart", "RemoveFromCart", "ViewCart"}
     /\ \/ NotPositive(http[w].cartIdStr)
        \/ http[w].handler = "RemoveFromCart" /\ NotPositive(http[w].itemIdStr))
    => /\ Response(w).status = StatusBadRequest
       /\ ~Forwarded(w)
       /\ req[w] = ZeroReq /\ sv[w] = ZeroRet

\* RemoveFromCart with cartId "1" and itemId "-1" was answered 400.
C13_Witness ==
  \E w \in Workers :
    /\ Done(w) /\ http[w].handler = "RemoveFromCart"
    /\ http[w].cartIdStr = <<"1">> /\ http[w].itemIdStr = <<"-", "1">>
    /\ Response(w).status = StatusBadRequest
    /\ req[w] = ZeroReq

\* The encoded Cart j is the Cart c.
IsCartBody(j, c) ==
  /\ j.id = c.Id
  /\ Len(j.items) = Len(c.Items)
  /\ \A k \in 1..Len(c.Items) :
       /\ j.items[k].id = c.Items[k].Id /\ j.items[k].cart_id = c.Items[k].CartId
       /\ j.items[k].product = c.Items[k].Product
       /\ j.items[k].quantity = c.Items[k].Quantity

\* C14: when the service call returns no error, CreateCart answers 201 with
\* the service's Cart as body, AddToCart 201 with the service's CartItem,
\* RemoveFromCart 204 with no body, ViewCart 200 with the service's Cart.
C14_SuccessResponses ==
  \A w \in Workers :
    (Done(w) /\ Forwarded(w) /\ sv[w].err = Nil) =>
      LET r == Response(w)
          h == http[w].handler IN
      /\ h = "CreateCart" =>
           r.status = StatusCreated /\ r.kind = "cart" /\ IsCartBody(r.cart, sv[w].cart)
      /\ h = "AddToCart" =>
           /\ r.status = StatusCreated /\ r.kind = "item"
           /\ r.item.id = sv[w].item.Id /\ r.item.cart_id = sv[w].item.CartId
           /\ r.item.product = sv[w].item.Product /\ r.item.quantity = sv[w].item.Quantity
      /\ h = "RemoveFromCart" => r.status = StatusNoContent /\ r.kind = "none"
      /\ h = "ViewCart" =>
           r.status = StatusOK /\ r.kind = "cart" /\ IsCartBody(r.cart, sv[w].cart)

\* RemoveFromCart succeeded and was answered 204 with no body.
C14_Witness ==
  \E w \in Workers :
    /\ Done(w) /\ Forwarded(w) /\ http[w].handler = "RemoveFromCart"
    /\ sv[w].err = Nil
    /\ Response(w).status = StatusNoContent /\ Response(w).kind = "none"

\* C15: Storage RemoveFromCart whose item check finds no row for the item id,
\* on an existing cart, with a context that stays live and a driver that
\* works, returns the storage not-found error, deletes nothing and rolls its
\* transaction back: the check leaves the method with that error and no
\* deletion, and the method returns it after its deferred Rollback.
C15_RemoveMissingItemIsNotFound ==
  [][\A w \in Workers :
       /\ (/\ pc[w] = "rf_item" /\ pc'[w] # "rf_item"
           /\ ctx'[w] = "live" /\ ~gh'[w].faulted
           /\ req[w].cartId \in db.carts
           /\ req[w].itemId \notin ItemIdsOf(db))
          => /\ pc'[w] = "rollback"
             /\ st'[w] = [ZeroRet EXCEPT !.err = <<StOp("RemoveFromCart"), DbErrNotFound>>]
             /\ db' = db
             /\ tx'[w].state = "open"
             /\ tx'[w].delLinks = {} /\ tx'[w].delItems = {}
             /\ gh'[w].issued = <<"begin", "select cart", "select item">>
       /\ (/\ pc[w] = "rollback" /\ pc'[w] # "rollback"
           /\ gh[w].issued = <<"begin", "select cart", "select item">>)
          => /\ pc'[w] = "done"
             /\ st'[w] = st[w]
             /\ db' = db
             /\ tx'[w].state = "rolledback"
             /\ tx'[w].delLinks = {} /\ tx'[w].delItems = {}
             /\ gh'[w].issued = <<"begin", "select cart", "select item", "rollback">>]_vars

\* RemoveFromCart of an item id without row, on an existing cart and beside
\* an existing item, returned not-found with its transaction rolled back.
C15_Witness ==
  \E w \in Workers :
    /\ Done(w) /\ req[w].op = "RemoveFromCart" /\ Clean(w)
    /\ req[w].cartId \in db.carts
    /\ db.items # {} /\ req[w].itemId \notin ItemIdsOf(db)
    /\ st[w].err = <<StOp("RemoveFromCart"), DbErrNotFound>>
    /\ tx[w].state = "rolledback"
    /\ gh[w].issued = <<"begin", "select cart", "select item", "rollback">>

\* C16: a successful CreateCart adds exactly one cart row, with an id no
\* cart had before, changes no item, no link and no other cart, and returns
\* a Cart with that id and an empty item list: the body of the 201 response
\* is {id, items: []}.
C16_CreateCartAddsOneEmptyCart ==
  [][\A w \in PipeWorkers :
       (/\ pc[w] = "idle" /\ pc'[w] = "done"
        /\ http'[w].handler = "CreateCart" /\ sv'[w].err = Nil)
       => LET id == sv'[w].cart.Id
              body == Response(w)' IN
          /\ id \notin db.carts
          /\ db'.carts = db.carts \cup {id}
          /\ db'.items = db.items /\ db'.links = db.links
          /\ sv'[w].cart.Items = <<>>
          /\ body.status = StatusCreated /\ body.kind = "cart"
          /\ body.cart.id = id
          /\ body.cart.items = <<>> /\ ~body.cart.null]_vars

\* C18: every item row that a commit of the AddToCart pipeline puts into the
\* item table has a non-empty product and a quantity > 0, and is linked to a
\* cart that exists.
C18_CommittedItemsAreValid ==
  [][\A r \in db'.items \ db.items :
       /\ r.product # ""
       /\ r.quantity > 0
       /\ \E l \in db'.links : l.item_id = r.id /\ l.cart_id \in db'.carts]_vars

\* An AddToCart request went through the handler and its item row was
\* committed.
C18_Witness ==
  \E w \in PipeWorkers :
    /\ Done(w) /\ http[w].handler = "AddToCart" /\ Forwarded(w)
    /\ tx[w].state = "committed" /\ sv[w].err = Nil
    /\ \E r \in db.items : r.id = sv[w].item.Id /\ r.product = "pear" /\ r.quantity = 1

\* Every column of the row decodes into its field of a models.CartItem.
Decodes(row) ==
  /\ row.item_id.t = "int" /\ row.cart_id.t = "int"
  /\ row.product.t = "text" /\ row.quantity.t = "int"
\* The item a decodable row stands for.
ItemOfRow(row) ==
  [Id |-> row.item_id.n, CartId |-> row.cart_id.n, Product |-> row.product.s,
   Quantity |-> row.quantity.n]
\* The items of the decodable rows, in the order of the rows.
DecodableItems(rows) ==
  LET sel == SelectSeq(rows, Decodes) IN [k \in 1..Len(sel) |-> ItemOfRow(sel[k])]

\* C17: Storage.ViewCart returns success whatever rows fail to decode, and
\* its items are exactly the rows that decoded, in query order, each with the
\* field values of its own row; while it reads, the items collected are those
\* of the decodable rows among the rows delivered so far.
C17_ViewCartSkipsUndecodableRows ==
  \A w \in PipeWorkers :
    /\ pc[w] = "vc_loop" =>
         view[w].items = DecodableItems(SubSeq(view[w].rows, 1, view[w].k))
    /\ (Done(w) /\ req[w].op = "ViewCart") =>
         /\ st[w].err = Nil /\ sv[w].err = Nil
         /\ st[w].cart.Id = req[w].cartId
         /\ st[w].cart.Items = DecodableItems(view[w].rows)

\* ViewCart read a decodable row, a row whose quantity does not decode after
\* its id did, and another decodable row, and returned the first and the
\* third.
C17_Witness ==
  \E w \in PipeWorkers :
    /\ Done(w) /\ req[w].op = "ViewCart" /\ st[w].err = Nil
    /\ Len(view[w].rows) = 3
    /\ Decodes(view[w].rows[1]) /\ Decodes(view[w].rows[3])
    /\ view[w].rows[1].item_id = SqlInt(1)
    /\ view[w].rows[2].item_id = SqlInt(2) /\ view[w].rows[2].cart_id = SqlInt(1)
    /\ view[w].rows[2].product = SqlText("apple")
    /\ view[w].rows[2].quantity = SqlText("many")
    /\ view[w].rows[3].item_id = SqlInt(1)
    /\ st[w].cart.Items = <<ItemOfRow(view[w].rows[1]), ItemOfRow(view[w].rows[3])>>

\* The characters m..n of the string, as far as it has them.
Slice(str, m, n) ==
  LET last == IF n > Len(str) THEN Len(str) ELSE n IN
  IF m > last THEN <<>> ELSE SubSeq(str, m, last)
\* The string has no slash and is the numeral of an integer.
IsIdSegment(str) == (\A i \in 1..Len(str) : str[i] # "/") /\ ~Atoi(str).err
\* The ids <<cartId, itemId>> of the string if it is carts/{cartId},
\* carts/{cartId}/items or carts/{cartId}/items/{itemId} (itemId 0 when the
\* form has none); no ids if it is none of them.
CartForms(str) ==
  LET pre == PieceChars("carts") \o <<"/">>
      mid == <<"/">> \o PieceChars("items") IN
  UNION {
    LET id == Slice(str, Len(pre) + 1, i)
        rest == Slice(str, i + 1, Len(str))
        id2 == Slice(rest, Len(mid) + 2, Len(rest)) IN
    IF Slice(str, 1, Len(pre)) # pre \/ i <= Len(pre) \/ ~IsIdSegment(id) THEN {}
    ELSE IF rest = <<>> \/ rest = mid THEN {<<Atoi(id).n, 0>>}
    ELSE IF Slice(rest, 1, Len(mid) + 1) = mid \o <<"/">> /\ IsIdSegment(id2)
    THEN {<<Atoi(id).n, Atoi(id2).n>>}
    ELSE {} : i \in 1..Len(str)}

\* C19 as stated: ParseCartPath succeeds exactly on the paths /carts/{cartId},
\* /carts/{cartId}/items and /carts/{cartId}/items/{itemId} whose id segments
\* are numerals of integers, and returns their ids; on every other path it
\* fails; it changes nothing else.
C19_ParseCartPathExactForms ==
  url.called =>
    LET str == PathChars(url.path) IN
    /\ ~url.err <=> (str # <<>> /\ Head(str) = "/" /\ CartForms(Tail(str)) # {})
    /\ ~url.err => <<url.CartId, url.ItemId>> \in CartForms(Tail(str))
    /\ url.err => (url.CartId = 0 /\ url.ItemId = 0)
    /\ db = EmptyDb /\ \A w \in Workers : pc[w] = "idle"

\* C19, amended: ParseCartPath first removes every leading and trailing
\* slash; it succeeds exactly when what is left is carts/{cartId},
\* carts/{cartId}/items or carts/{cartId}/items/{itemId} with id segments that
\* are numerals of integers, and returns their ids; on every other path it
\* fails with zero ids; it changes nothing else.
C19_ParseCartPathTrimmedForms ==
  url.called =>
    LET str == PathChars(url.path)
        lead == {i \in 0..Len(str) : \A j \in 1..i : str[j] = "/"}
        trail == {i \in 0..Len(str) : \A j \in (Len(str) - i + 1)..Len(str) : str[j] = "/"}
        a == CHOOSE i \in lead : \A j \in lead : j <= i
        b == CHOOSE i \in trail : \A j \in trail : j <= i
        core == Slice(str, a + 1, Len(str) - b) IN
    /\ ~url.err <=> CartForms(core) # {}
    /\ ~url.err => <<url.CartId, url.ItemId>> \in CartForms(core)
    /\ url.err => (url.CartId = 0 /\ url.ItemId = 0)
    /\ db = EmptyDb /\ \A w \in Workers : pc[w] = "idle"

\* ParseCartPath was given carts/1/items/-1, without the leading slash, and
\* returned the ids 1 and -1.
C19_Witness ==
  /\ url.called /\ ~url.err
  /\ url.path = <<"carts", "/", "1", "/", "items", "/", "-", "1">>
  /\ url.CartId = 1 /\ url.ItemId = 0 - 1

WriteTags == {"insert item", "insert cart_item", "delete cart_item", "delete item"}
\* The database calls of the returned write call of w follow the protocol of
\* one transaction.
TxCalls(w) ==
  LET is == gh[w].issued
      n == Len(is) IN
  /\ tx[w].state # "open"
  /\ n = 0 => (tx[w].state = "none" /\ st[w].err # Nil)
  /\ n > 0 => is[1] = "begin"
  /\ \A k \in 2..n : is[k] # "begin"
  \* Begin failed: nothing else is issued
  /\ (n > 0 /\ tx[w].state = "none") => (n = 1 /\ st[w].err # Nil)
  \* Begin succeeded: the cart check comes first, the writes after it, and
  \* the deferred Rollback last
  /\ tx[w].state # "none" =>
       /\ n >= 3 /\ is[2] = "select cart" /\ is[n] = "rollback"
       /\ \A k \in 1..n : is[k] \in WriteTags => k > 2
       /\ \A k \in 1..(n - 1) : is[k] # "rollback"
       /\ \A k \in 1..n : is[k] = "commit" => k = n - 1
  /\ st[w].err = Nil => (tx[w].state = "committed" /\ n >= 2 /\ is[n - 1] = "commit")

\* A success follows a successful Commit, and after an error the transaction
\* is rolled back.
TxProtocol(w) ==
  /\ TxCalls(w)
  /\ (st[w].err # Nil /\ Len(gh[w].issued) > 1) => tx[w].state = "rolledback"
  /\ tx[w].state = "committed" => st[w].err = Nil

\* A success follows a successful Commit, and after an error the transaction
\* is rolled back unless the error is that of Commit, after which it is
\* rolled back or committed.
TxProtocolOfCommit(w) ==
  LET is == gh[w].issued
      n == Len(is) IN
  /\ TxCalls(w)
  /\ (st[w].err # Nil /\ n > 1) => tx[w].state \in {"rolledback", "committed"}
  /\ tx[w].state = "committed" => (n >= 2 /\ is[n - 1] = "commit")
  /\ tx[w].state = "rolledback" => st[w].err # Nil

\* C20: when the Storage method of an AddToCart or RemoveFromCart call
\* returns, its database calls were one transaction: Begin first; if Begin
\* failed nothing else was issued; otherwise the cart check came before any
\* write, a success was preceded by a successful Commit, an error was
\* followed by the rollback of the transaction, which is never left open;
\* and the deferred Rollback after a successful Commit leaves the committed
\* writes in the tables.
C20_TransactionProtocol ==
  [][\A w \in Workers :
       (Returns(w) /\ IsWrite(req'[w].op)) =>
         /\ TxProtocol(w)'
         /\ tx'[w].state = "committed" => Tables(db') = Tables(Apply(tx[w], db))
         /\ tx'[w].state # "committed" => Tables(db') = Tables(db)]_vars

\* C20 (amended): when the Storage method of an AddToCart or RemoveFromCart
\* call returns, its database calls were one transaction: Begin first; if
\* Begin failed nothing else was issued; otherwise the cart check came before
\* any write and the deferred Rollback came last; a success was preceded by a
\* successful Commit; after an error the transaction is never left open: it
\* is rolled back with none of its writes in the tables, or, only when the
\* error is that of Commit, committed by the server with all of them; and the
\* deferred Rollback after a Commit leaves the committed writes in the tables.
C20_TransactionEndsAtReturn ==
  [][\A w \in Workers :
       (Returns(w) /\ IsWrite(req'[w].op)) =>
         /\ TxProtocolOfCommit(w)'
         /\ tx'[w].state = "committed" => Tables(db') = Tables(Apply(tx[w], db))
         /\ tx'[w].state # "committed" => Tables(db') = Tables(db)]_vars

\* A RemoveFromCart deleted a link and an item, committed, and returned
\* success after the deferred Rollback; the rows are gone.
C20_Witness ==
  \E w \in Workers :
    /\ Done(w) /\ req[w].op = "RemoveFromCart" /\ st[w].err = Nil
    /\ tx[w].state = "committed"
    /\ tx[w].delLinks # {} /\ tx[w].delItems # {}
    /\ gh[w].issued = <<"begin", "select cart", "select item", "delete cart_item",
                         "delete item", "commit", "rollback">>
    /\ \A r \in db.items : r.id \notin tx[w].delItems

\* The items that belong to cart c in the tables d, as ViewCart returns them.
ItemsOfCart(d, c) ==
  {[Id |-> r.id, CartId |-> c, Product |-> r.product, Quantity |-> r.quantity] :
     r \in {o \in d.items : \E l \in d.links : l.cart_id = c /\ l.item_id = o.id}}

\* C21: a successful ViewCart(c) of an existing cart c returns Cart{id: c}
\* whose items are exactly the items that belong to c in the tables: none of
\* another cart, none missing, none twice, each with cartId = c; and the call
\* changes no table.  The query is answered with the items of c in the tables
\* as they are then, and the call returns exactly the rows of that answer.
C21_ViewCartReturnsTheCart ==
  [][\A w \in Workers :
       /\ (pc[w] = "idle" /\ pc'[w] = "vc_next")
          => LET rows == loc'[w].rows IN
             /\ db' = db
             /\ {rows[k] : k \in 1..Len(rows)} = ItemsOfCart(db, req'[w].cartId)
       /\ (/\ Returns(w) /\ req'[w].op = "ViewCart" /\ st'[w].err = Nil
           /\ req'[w].cartId \in db.carts)
          => LET items == st'[w].cart.Items
                 rows == Snapshot(w)' IN
             /\ db' = db
             /\ st'[w].cart.Id = req'[w].cartId
             /\ {items[k] : k \in 1..Len(items)} = {rows[k] : k \in 1..Len(rows)}
             /\ \A j, k \in 1..Len(items) : items[j].Id = items[k].Id => j = k
             /\ \A k \in 1..Len(items) : items[k].CartId = req'[w].cartId]_vars

\* C22: RemoveFromCart(c, i) changes only cart c: when it returns, every item
\* that belonged to another existing cart c2 is still in the item table, and
\* what ViewCart(c2) reads is what it read before the call returned.
C22_RemoveChangesOnlyItsCart ==
  [][\A w \in Workers :
       (Returns(w) /\ req'[w].op = "RemoveFromCart") =>
         \A c2 \in db.carts \ {req'[w].cartId} :
           /\ JoinRows(db', c2) = JoinRows(db, c2)
           /\ ItemsOfCart(db', c2) = ItemsOfCart(db, c2)]_vars

\* C23: a successful ViewCart is complete: its items are all the rows its
\* join query was answered with; a read that the context or the driver
\* stopped before the last row does not return success.
C23_ViewCartIsComplete ==
  \A w \in Workers :
    (Done(w) /\ req[w].op = "ViewCart" /\ gh[w].stCalled /\ st[w].err = Nil) =>
      /\ st[w].cart.Items = Snapshot(w)
      /\ loc[w].rows = <<>>


\* C24: a service method entered with a done context, whatever non-nil error
\* ctx.Err() holds (Canceled, DeadlineExceeded or any other), returns a
\* non-nil error and does not call Storage.
C24_DoneContextNeverSucceeds ==
  \A w \in Workers :
    (Done(w) /\ ctxDone(gh[w].svCtx)) =>
      /\ sv[w].err # Nil
      /\ ~gh[w].stCalled

\* C25: of two RemoveFromCart calls for the same cart and the same item of
\* it that run concurrently, at most one returns success: a call that
\* returns after the other has removed the pair returns an error, which is
\* the not-found error when its own context and connection did not fail.
C25_ConcurrentRemoveOnlyOneSucceeds ==
  [][\A w \in Workers :
       (/\ Returns(w) /\ req'[w].op = "RemoveFromCart"
        /\ <<req'[w].cartId, req'[w].itemId>> \in gone)
       => /\ st'[w].err # Nil
          /\ (ctx'[w] = "live" /\ ~gh'[w].faulted) => Is(st'[w].err, DbErrNotFound)]_vars

\* C26: two AddToCart calls on the same existing cart that run concurrently
\* both succeed in every interleaving of their steps when neither's context
\* or connection fails (the cart check of a call finds the cart, and a call
\* that is past its cart check returns success), the ids they return are
\* distinct (the id a call returns is neither the id its still running peer
\* holds nor the id of a row already committed), and every successful
\* ViewCart issued after both have committed contains them: its query is
\* answered with the items committed to the cart, and the call returns every
\* item of that answer.
C26_ConcurrentAddsBothSucceed ==
  [][\A w \in Workers :
       /\ (/\ pc[w] = "at_cart" /\ pc'[w] # "at_cart"
           /\ ctx'[w] = "live" /\ ~gh'[w].faulted
           /\ req[w].cartId \in db.carts)
          => pc'[w] = "at_item"
       /\ (/\ Returns(w) /\ req'[w].op = "AddToCart"
           /\ ctx'[w] = "live" /\ ~gh'[w].faulted
           /\ Len(gh[w].issued) > 2)
          => /\ st'[w].err = Nil
             /\ st'[w].item.Id \notin ItemIdsOf(db)
             /\ \A u \in Workers \ {w} :
                  (/\ InFlight(u) /\ req[u].op = "AddToCart"
                   /\ req[u].cartId = req'[w].cartId)
                  => st'[w].item.Id # loc[u].itemId
             /\ \E r \in ItemsOfCart(db', req'[w].cartId) : r = st'[w].item
       /\ (pc[w] = "idle" /\ pc'[w] = "vc_next")
          => ItemsOfCart(db, req'[w].cartId)
               \subseteq {loc'[w].rows[k] : k \in 1..Len(loc'[w].rows)}
       /\ (Returns(w) /\ req'[w].op = "ViewCart" /\ st'[w].err = Nil)
          => Ids(Snapshot(w)) \subseteq Ids(st'[w].cart.Items)]_vars

\* The part of C26 about the AddToCart calls and the answer of the query.
C26_AddsSucceedWithDistinctIds ==
  [][\A w \in Workers :
       /\ (/\ pc[w] = "at_cart" /\ pc'[w] # "at_cart"
           /\ ctx'[w] = "live" /\ ~gh'[w].faulted
           /\ req[w].cartId \in db.carts)
          => pc'[w] = "at_item"
       /\ (/\ Returns(w) /\ req'[w].op = "AddToCart"
           /\ ctx'[w] = "live" /\ ~gh'[w].faulted
           /\ Len(gh[w].issued) > 2)
          => /\ st'[w].err = Nil
             /\ st'[w].item.Id \notin ItemIdsOf(db)
             /\ \A u \in Workers \ {w} :
                  (/\ InFlight(u) /\ req[u].op = "AddToCart"
                   /\ req[u].cartId = req'[w].cartId)
                  => st'[w].item.Id # loc[u].itemId
             /\ \E r \in ItemsOfCart(db', req'[w].cartId) : r = st'[w].item
       /\ (pc[w] = "idle" /\ pc'[w] = "vc_next")
          => ItemsOfCart(db, req'[w].cartId)
               \subseteq {loc'[w].rows[k] : k \in 1..Len(loc'[w].rows)}]_vars

\* The case in which C26 fails: both overlapping calls have committed, the
\* query of a later ViewCart was answered with both items, and the call
\* returned success with fewer.
C26_TruncatedViewOfOverlappingAdds ==
  \E w \in Workers :
    /\ Done(w) /\ req[w].op = "ViewCart" /\ st[w].err = Nil /\ gh[w].stCalled
    /\ Len(Snapshot(w)) = 2 /\ Len(st[w].cart.Items) < 2
    /\ db.links = {[id |-> 2, cart_id |-> req[w].cartId, item_id |-> 1],
                   [id |-> 1, cart_id |-> req[w].cartId, item_id |-> 2]}

\* A complete ViewCart of a cart whose two items were added by calls that
\* overlapped: the call that inserted item 1 inserted its link second.
C26_CompleteViewOfOverlappingAdds ==
  \E w \in Workers :
    /\ Done(w) /\ req[w].op = "ViewCart" /\ st[w].err = Nil /\ Clean(w)
    /\ Len(st[w].cart.Items) = 2
    /\ db.links = {[id |-> 2, cart_id |-> req[w].cartId, item_id |-> 1],
                   [id |-> 1, cart_id |-> req[w].cartId, item_id |-> 2]}

\* C27: in every reachable state of the tables, whatever calls ran, failed or
\* overlapped, every item row has exactly one link row, and every link row
\* names a cart row and an item row that exist.
C27_NoOrphanRows ==
  /\ \A r \in db.items : Cardinality({l \in db.links : l.item_id = r.id}) = 1
  /\ \A l \in db.links :
       /\ l.cart_id \in db.carts
       /\ \E r \in db.items : r.id = l.item_id

\* An AddToCart has failed after its two inserts while another item is in a
\* cart.
C27_Witness ==
  /\ db.items # {} /\ db.links # {}
  /\ \E w \in Workers :
       /\ Done(w) /\ req[w].op = "AddToCart" /\ st[w].err # Nil
       /\ loc[w].itemId # 0 /\ loc[w].linkId # 0

\* C28: a successful POST /carts/{cartId}/items adds one item row, under an
\* id no row of the table has, and one link row that ties it to the cart of
\* the path, whatever "id" and "cart_id" the body carries: the rows that were
\* there stay as they were, no other cart gains an item, and the item returned
\* has the new id and the path's cart.
C28_BodyIdsAreIgnored ==
  [][\A w \in PipeWorkers :
       (Returns(w) /\ req'[w].op = "AddToCart" /\ st'[w].err = Nil) =>
         LET cartId == parseCartID(http'[w].cartIdStr).id
             new == st'[w].item IN
         /\ new.Id \notin ItemIdsOf(db)
         /\ new.CartId = cartId
         /\ db.items \subseteq db'.items
         /\ db.links \subseteq db'.links
         /\ db'.items \ db.items =
              {[id |-> new.Id, product |-> new.Product, quantity |-> new.Quantity]}
         /\ {<<l.cart_id, l.item_id>> : l \in db'.links \ db.links} = {<<cartId, new.Id>>}
         /\ \A c2 \in db.carts \ {cartId} : ItemsOfCart(db', c2) = ItemsOfCart(db, c2)]_vars

\* An item added to cart 1 by a body that names cart 2 and the id of the item
\* cart 1 already holds.
C28_Witness ==
  \E w \in PipeWorkers :
    /\ Done(w) /\ req[w].op = "AddToCart" /\ st[w].err = Nil
    /\ http[w].cartIdStr = <<"1">>
    /\ http[w].body.id = JNum(1) /\ http[w].body.cart_id = JNum(2)
    /\ db.carts = {1, 2}
    /\ st[w].item.Id = 2 /\ st[w].item.CartId = 1
    /\ 1 \in ItemIdsOf(db)

\* The handler listed for a method and a path given as its slashes and
\* segments, a slash at the end of the path aside: "" when the pair is none of
\* POST /carts, POST /carts/{cartId}/items,
\* DELETE /carts/{cartId}/items/{itemId} and GET /carts/{cartId}.
ListedHandler(method, path) ==
  LET p == IF Len(path) > 1 /\ path[Len(path)] = "/"
           THEN SubSeq(path, 1, Len(path) - 1) ELSE path
      under == Len(p) >= 4 /\ SubSeq(p, 1, 3) = <<"/", "carts", "/">> /\ p[4] # "/" IN
  IF p = <<"/", "carts">> /\ method = "POST" THEN "CreateCart"
  ELSE IF under /\ Len(p) = 4 /\ method = "GET" THEN "ViewCart"
  ELSE IF under /\ Len(p) = 6 /\ SubSeq(p, 5, 6) = <<"/", "items">> /\ method = "POST"
  THEN "AddToCart"
  ELSE IF /\ under /\ Len(p) = 8 /\ SubSeq(p, 5, 7) = <<"/", "items", "/">>
          /\ p[8] # "/" /\ method = "DELETE"
  THEN "RemoveFromCart"
  ELSE ""

\* C29: a request reaches a handler only when its method and path are one of
\* the four listed pairs, and then the handler of that pair; every other
\* request is answered 404 without a handler, a service or Storage call and
\* without a change of the tables, so no cart is created by a request to
\* /carts that is not a POST.
C29_OnlyListedRoutesReachHandlers ==
  [][\A w \in PipeWorkers :
       (pc[w] = "idle" /\ pc'[w] # "idle") =>
         LET listed == ListedHandler(route'[w].method, route'[w].path) IN
         /\ route'[w].handler # "NotFound" => route'[w].handler = listed
         /\ listed = "" =>
              /\ route'[w].handler = "NotFound"
              /\ RouteResponse(w)'.status = StatusNotFound
              /\ http'[w].handler = "" /\ req'[w] = ZeroReq
              /\ db' = db]_vars

\* C30: once Run has received a termination signal the database connection
\* is eventually closed, and whenever it is closed the shutdown of the HTTP
\* server has completed: the listener is closed and no connection is open.
C30_SignalClosesDatabaseAfterShutdown ==
  /\ [](app.dbClosed =>
          /\ ~app.listening
          /\ \A k \in Conns : app.conns[k] \in {"none", "closed"})
  /\ (app.pc = "signalled" ~> app.dbClosed)

====
